---- MODULE Spec2Model ----
(***************************************************************************)
(* Terrain-to-solid pipeline of topo-to-stl-tool (server/terrain.ts):      *)
(* the resolution fallback ladder of TerrainGenerator.generate, one        *)
(* attempt of generateAtResolution (tile range, grid, height mapping,      *)
(* top / bottom / wall triangles) and the binary STL writer.               *)
(*                                                                         *)
(* Numbers: JavaScript numbers are modelled as exact rationals <<n, d>>    *)
(* (d > 0, lowest terms).  Inputs are drawn so that every elevation is an  *)
(* integer, which Float32Array stores without rounding.                    *)
(***************************************************************************)
EXTENDS Integers, Sequences, FiniteSets, TLC

VARIABLES
    options,            \* TerrainOptions of this generator (immutable)
    pc,                 \* position of generate(): "new", "search", "stac", "venus", "tiles",
                        \* "returned", "threw"
    attempts,           \* the list built by getFallbackAttempts()
    idx,                \* 1-based index of the attempt in progress
    calls,              \* generateAtResolution(zoom, maxSegments) invocations so far
    lastError,          \* generate()'s local lastError
    thrown,             \* the error generate() rejected with, or NoError
    fallbackTriggered,  \* TerrainGenerator.fallbackTriggered
    elevationSource,    \* TerrainGenerator.elevationSource
    moonUsedKaguya,     \* TerrainGenerator.moonUsedKaguya
    att,                \* locals of the running attempt (zoom, actualZoom, width, height, segments)
    mesh,               \* locals of the attempt that returned: gridMap, elevGrid, vertices, indices
    buffer              \* the Buffer a createSTLBinary call wrote, byte by byte (SpecSTL), or
                        \* its length and triangle count (SpecGrid); the buffer generate()
                        \* returns is createSTLBinary(mesh.vertices, mesh.indices)

vars == <<options, pc, attempts, idx, calls, lastError, thrown,
          fallbackTriggered, elevationSource, moonUsedKaguya, att, mesh, buffer>>

-----------------------------------------------------------------------------
(* Arithmetic helpers                                                      *)

Max(a, b) == IF a >= b THEN a ELSE b
Min(a, b) == IF a <= b THEN a ELSE b
Abs(a) == IF a < 0 THEN -a ELSE a

RECURSIVE Pow2(_)
Pow2(k) == IF k = 0 THEN 1 ELSE 2 * Pow2(k - 1)

RECURSIVE GCD(_, _)
GCD(a, b) == IF b = 0 THEN a ELSE GCD(b, a % b)


\* rationals in lowest terms; <<0, 0>> is a number that is not finite (NaN,
\* Infinity), which every operation hands on
Rat(n, d) ==
    IF d = 0 THEN <<0, 0>>
    ELSE LET s == IF d < 0 THEN -1 ELSE 1
             g == GCD(Abs(n), Abs(d))
         IN  <<(s * n) \div g, (s * d) \div g>>
RInt(n) == <<n, 1>>
RAdd(a, b) == Rat(a[1] * b[2] + b[1] * a[2], a[2] * b[2])
RSub(a, b) == Rat(a[1] * b[2] - b[1] * a[2], a[2] * b[2])
RMul(a, b) == Rat(a[1] * b[1], a[2] * b[2])
RDiv(a, b) == Rat(a[1] * b[2], a[2] * b[1])
RNeg(a) == <<-a[1], a[2]>>
RLess(a, b) == a[1] * b[2] < b[1] * a[2]
RLeq(a, b) == a[2] # 0 /\ b[2] # 0 /\ a[1] * b[2] <= b[1] * a[2]
\* Math.round: nearest integer, halves towards +infinity
RRound(a) == (2 * a[1] + a[2]) \div (2 * a[2])

-----------------------------------------------------------------------------
(* Program constants                                                       *)

MIN_ZOOM == 5
MAX_PIXELS == 4096
TILE_SIZE == 256
TOP_ZOOM == 14

RESOLUTION_ORDER == <<"low", "medium", "high", "ultra">>
ZOOM_BY_RES == [low |-> 11, medium |-> 12, high |-> 13, ultra |-> 14]
SEGMENTS_BY_RES == [low |-> 128, medium |-> 256, high |-> 384, ultra |-> 1024]

IndexOf(seq, e) == CHOOSE i \in 1..Len(seq) : seq[i] = e

-----------------------------------------------------------------------------
(* Bounds of the model                                                     *)

\* one model grid cell stands for SegUnit cells of the real mesh grid
SegUnit == 200
\* cells of the sampled raster that may hold a gap or a peak: the first
\* ProbeCount cells of the list (centre, first, last, ...)
ProbeCount == 2

-----------------------------------------------------------------------------
(* Elevation decoding and sampling (generateAtResolution, first half)      *)

NaN == <<0, 0>>
IsFinite(v) == v[2] # 0

\* r * 256 + g + b / 256 - 32768
decodeElevationEarth(r, g, b) ==
    RSub(RAdd(RInt(r * 256 + g), Rat(b, 256)), RInt(32768))

\* ((r + g + b) / 3) * 100
decodeElevationPlanetary(r, g, b) == RMul(Rat(r + g + b, 3), RInt(100))

At(arr, i) == arr[i + 1]                 \* arr[i] of a 0-based JavaScript array
\* an array filled by a loop, as a sequence (evaluated once)
Array(f) == f \o <<>>

\* fault variant: the test is against the circle through the corners
OutsideOvalThroughCorners(x, y, segmentsX, segmentsY) ==
    LET cx == Rat(segmentsX - 1, 2)
        cy == Rat(segmentsY - 1, 2)
        dx == RDiv(RSub(RInt(x), cx), cx)
        dy == RDiv(RSub(RInt(y), cy), cy)
    IN  RLess(RInt(2), RAdd(RMul(dx, dx), RMul(dy, dy)))

\* the oval mask test of both grid loops: TRUE when the cell is skipped
OutsideOval(x, y, segmentsX, segmentsY) ==
    LET cx == Rat(segmentsX - 1, 2)
        cy == Rat(segmentsY - 1, 2)
        dx == RDiv(RSub(RInt(x), cx), cx)
        dy == RDiv(RSub(RInt(y), cy), cy)
    IN  RLess(RInt(1), RAdd(RMul(dx, dx), RMul(dy, dy)))

Skipped(shape, x, y, segmentsX, segmentsY) ==
    shape = "oval" /\ OutsideOval(x, y, segmentsX, segmentsY)

\* getElevation(col, row): null is modelled as NaN.  src.hasUsgs says that
\* usgsElev is set; src.usgsElev is then the value of the catalog / global
\* raster source and src.data the canvas pixel <<r, g, b, a>> that the
\* cell's nearest-neighbour index selects.
getElevation(planet, src, i) ==
    IF src.hasUsgs
    THEN At(src.usgsElev, i)
    ELSE LET p == At(src.data, i)
         IN  IF p[4] = 0 THEN NaN
             ELSE IF planet = "earth"
                  THEN decodeElevationEarth(p[1], p[2], p[3])
                  ELSE decodeElevationPlanetary(p[1], p[2], p[3])

\* elevGrid after the sampling loop: NaN where masked or no sample
SampleGrid(opt, src, segmentsX, segmentsY) ==
    Array([k \in 1..(segmentsX * segmentsY) |->
        LET i == k - 1
            x == i % segmentsX
            y == i \div segmentsX
        IN  IF Skipped(opt.shape, x, y, segmentsX, segmentsY) THEN NaN
            ELSE LET elev == getElevation(opt.planet, src, i)
                 IN  IF IsFinite(elev) THEN elev ELSE NaN])

\* validElevs as a set of values
ValidElevs(grid) == {grid[k] : k \in {j \in 1..Len(grid) : IsFinite(grid[j])}}
RMinOf(S) == CHOOSE m \in S : \A o \in S : RLeq(m, o)
RMaxOf(S) == CHOOSE m \in S : \A o \in S : RLeq(o, m)

\* win.sort((a, b) => a - b): insertion into an ascending list
RECURSIVE Insert(_, _)
Insert(sorted, v) ==
    IF sorted = <<>> THEN <<v>>
    ELSE IF RLeq(v, Head(sorted)) THEN <<v>> \o sorted
         ELSE <<Head(sorted)>> \o Insert(Tail(sorted), v)

RECURSIVE SortAsc(_)
SortAsc(win) == IF win = <<>> THEN <<>> ELSE Insert(SortAsc(Tail(win)), Head(win))

\* the finite values of the (2r+1)x(2r+1) window around (x, y), in scan order
Window(srcGrid, x, y, r, segmentsX, segmentsY) ==
    LET offs == [k \in 1..((2 * r + 1) * (2 * r + 1)) |->
                    <<((k - 1) % (2 * r + 1)) - r, ((k - 1) \div (2 * r + 1)) - r>>]
        Ok(o) == LET nx == x + o[1]
                     ny == y + o[2]
                 IN  /\ nx >= 0 /\ nx < segmentsX /\ ny >= 0 /\ ny < segmentsY
                     /\ IsFinite(At(srcGrid, ny * segmentsX + nx))
        Val(o) == At(srcGrid, (y + o[2]) * segmentsX + (x + o[1]))
        inside == SelectSeq(Array(offs), Ok)
    IN  Array([k \in 1..Len(inside) |-> Val(inside[k])])

\* fault variant: the lower middle of an even window, win[(length - 1) / 2]
runMedianLowerMiddle(srcGrid, r, segmentsX, segmentsY) ==
    Array([k \in 1..Len(srcGrid) |->
        LET i == k - 1
            x == i % segmentsX
            y == i \div segmentsX
        IN  IF ~IsFinite(srcGrid[k]) THEN srcGrid[k]
            ELSE LET win == SortAsc(Window(srcGrid, x, y, r, segmentsX, segmentsY))
                 IN  IF Len(win) > 0 THEN At(win, (Len(win) - 1) \div 2) ELSE srcGrid[k]])

\* runMedian(src, dst, r): dst starts as a copy of src
runMedian(srcGrid, r, segmentsX, segmentsY) ==
    Array([k \in 1..Len(srcGrid) |->
        LET i == k - 1
            x == i % segmentsX
            y == i \div segmentsX
        IN  IF ~IsFinite(srcGrid[k]) THEN srcGrid[k]
            ELSE LET win == SortAsc(Window(srcGrid, x, y, r, segmentsX, segmentsY))
                 IN  IF Len(win) > 0 THEN At(win, Len(win) \div 2) ELSE srcGrid[k]])

\* fault variant: two passes for every grayscale basemap
MedianPassesAnyBasemap(opt, src) == IF opt.planet # "earth" /\ ~src.hasUsgs THEN 2 ELSE 1

\* number of median passes: two for the Moon basemap fallback, else one
MedianPasses(opt, src) == IF opt.planet = "moon" /\ ~src.hasUsgs THEN 2 ELSE 1

\* elevGrid after the denoising block (untouched when there is no valid
\* sample); sampled is elevGrid after the sampling loop
ElevGrid(opt, src, sampled, segmentsX, segmentsY) ==
    IF ValidElevs(sampled) = {} THEN sampled
    ELSE IF MedianPasses(opt, src) = 2
         THEN runMedian(runMedian(sampled, 1, segmentsX, segmentsY), 1,
                        segmentsX, segmentsY)
         ELSE runMedian(sampled, 1, segmentsX, segmentsY)

\* fault variant: no default range, minElev = Math.min() of no values
MinElevNoDefault(sampled) ==
    IF ValidElevs(sampled) = {} THEN NaN ELSE RMinOf(ValidElevs(sampled))

MinElev(sampled) ==
    IF ValidElevs(sampled) = {} THEN RInt(0) ELSE RMinOf(ValidElevs(sampled))

MaxElev(sampled) ==
    IF ValidElevs(sampled) = {} THEN RInt(100) ELSE RMaxOf(ValidElevs(sampled))

-----------------------------------------------------------------------------
(* Height mapping and vertices (generateAtResolution, second half)         *)

minThickness == Rat(8, 10)
maxThickness == RInt(4)
thicknessRange == RSub(maxThickness, minThickness)

\* scale of terrain mode
Scale(opt, minElev, maxElev) ==
    IF opt.planet = "earth"
    THEN Rat(opt.modelWidth, opt.bounds.realWidthMeters)
    ELSE LET elevRange == RSub(maxElev, minElev)
         IN  IF elevRange = RInt(0) THEN RInt(1)
             ELSE RDiv(RMul(RInt(opt.modelWidth), Rat(15, 100)), elevRange)

\* fault variant: invert is ignored in lithophane mode
NormNotInverted(opt, elev, minElev, maxElev) ==
    RDiv(RSub(elev, minElev),
         IF RSub(maxElev, minElev) = RInt(0) THEN RInt(1) ELSE RSub(maxElev, minElev))

\* norm of lithophane mode, with elevationRange = maxElev - minElev || 1
Norm(opt, elev, minElev, maxElev) ==
    IF opt.invert
    THEN RSub(RInt(1), RDiv(RSub(elev, minElev),
                            IF RSub(maxElev, minElev) = RInt(0) THEN RInt(1)
                            ELSE RSub(maxElev, minElev)))
    ELSE RDiv(RSub(elev, minElev),
              IF RSub(maxElev, minElev) = RInt(0) THEN RInt(1)
              ELSE RSub(maxElev, minElev))

\* z of the top vertex of a cell whose smoothed elevation is e (NaN: no sample)
TopZ(opt, e, minElev, maxElev) ==
    LET elev == IF IsFinite(e) THEN e ELSE minElev
        elev2 == IF opt.invert THEN RNeg(elev) ELSE elev
    IN  IF opt.lithophane
        THEN RAdd(minThickness, RMul(Norm(opt, elev, minElev, maxElev), thicknessRange))
        ELSE RAdd(RMul(RMul(RSub(elev2, minElev), opt.exaggeration),
                       Scale(opt, minElev, maxElev)),
                  RInt(opt.baseHeight))

\* px, py of grid cell (x, y)
ModelHeight(opt) == RDiv(RInt(opt.modelWidth), opt.bounds.aspectRatio)
Px(opt, x, segmentsX) ==
    RSub(RMul(Rat(x, segmentsX - 1), RInt(opt.modelWidth)), Rat(opt.modelWidth, 2))
Py(opt, y, segmentsY) ==
    RNeg(RSub(RMul(Rat(y, segmentsY - 1), ModelHeight(opt)),
              RDiv(ModelHeight(opt), RInt(2))))

\* the cells that get a vertex, in the order of the top-surface loop
\* (row by row): every cell the shape mask does not skip
VertexCells(shape, segmentsX, segmentsY) ==
    SelectSeq(Array([k \in 1..(segmentsX * segmentsY) |-> k - 1]),
              LAMBDA i : ~Skipped(shape, i % segmentsX, i \div segmentsX,
                                  segmentsX, segmentsY))

\* fault variant: every cell is given an index, masked or not
GridMapUnmasked(shape, segmentsX, segmentsY) ==
    Array([k \in 1..(segmentsX * segmentsY) |-> k - 1])

\* gridMap: -1, or the index the cell's vertex got when it was pushed
GridMap(shape, segmentsX, segmentsY) ==
    LET cells == VertexCells(shape, segmentsX, segmentsY)
    IN  Array([k \in 1..(segmentsX * segmentsY) |->
            IF \E v \in 1..Len(cells) : cells[v] = k - 1
            THEN (CHOOSE v \in 1..Len(cells) : cells[v] = k - 1) - 1
            ELSE -1])

\* vertices after the top-surface loop: px, py, z per vertex
TopVertices(opt, elevGrid, minElev, maxElev, segmentsX, segmentsY) ==
    LET cells == VertexCells(opt.shape, segmentsX, segmentsY)
    IN  Array([m \in 1..(3 * Len(cells)) |->
            LET i == cells[((m - 1) \div 3) + 1]
                c == (m - 1) % 3
            IN  IF c = 0 THEN Px(opt, i % segmentsX, segmentsX)
                ELSE IF c = 1 THEN Py(opt, i \div segmentsX, segmentsY)
                ELSE TopZ(opt, At(elevGrid, i), minElev, maxElev)])

\* the bottom-surface loop appends (x, y, 0) for every top vertex
WithBottom(top) ==
    top \o Array([m \in 1..Len(top) |-> IF (m - 1) % 3 = 2 THEN RInt(0) ELSE top[m]])

-----------------------------------------------------------------------------
(* Triangles: top, bottom and walls from gridMap                           *)

RECURSIVE Flatten(_)
Flatten(ss) == IF ss = <<>> THEN <<>> ELSE Head(ss) \o Flatten(Tail(ss))

G(gridMap, segmentsX, x, y) == At(gridMap, y * segmentsX + x)

\* all four corners of the quad whose top-left cell is (x, y) are present
QuadValid(gridMap, segmentsX, x, y) ==
    /\ G(gridMap, segmentsX, x, y) # -1
    /\ G(gridMap, segmentsX, x + 1, y) # -1
    /\ G(gridMap, segmentsX, x + 1, y + 1) # -1
    /\ G(gridMap, segmentsX, x, y + 1) # -1

addQuad(v1, v2, v3, v4) == <<v1, v4, v2, v2, v4, v3>>

TopQuad(gridMap, segmentsX, x, y) ==
    IF QuadValid(gridMap, segmentsX, x, y)
    THEN addQuad(G(gridMap, segmentsX, x, y), G(gridMap, segmentsX, x + 1, y),
                 G(gridMap, segmentsX, x + 1, y + 1), G(gridMap, segmentsX, x, y + 1))
    ELSE <<>>

BottomQuad(gridMap, segmentsX, x, y, offset) ==
    LET idx1 == G(gridMap, segmentsX, x, y)
        idx2 == G(gridMap, segmentsX, x + 1, y)
        idx3 == G(gridMap, segmentsX, x + 1, y + 1)
        idx4 == G(gridMap, segmentsX, x, y + 1)
    IN  IF QuadValid(gridMap, segmentsX, x, y)
        THEN <<offset + idx1, offset + idx2, offset + idx4,
               offset + idx2, offset + idx3, offset + idx4>>
        ELSE <<>>

\* the neighbour tests of the wall loop
topValid(gridMap, segmentsX, segmentsY, x, y) ==
    y > 0 /\ QuadValid(gridMap, segmentsX, x, y - 1)
botValid(gridMap, segmentsX, segmentsY, x, y) ==
    y < segmentsY - 2 /\ QuadValid(gridMap, segmentsX, x, y + 1)
\* fault variant: a left neighbour inside the grid counts as valid
leftValidInsideGrid(gridMap, segmentsX, segmentsY, x, y) ==
    x > 0
leftValid(gridMap, segmentsX, segmentsY, x, y) ==
    x > 0 /\ QuadValid(gridMap, segmentsX, x - 1, y)
\* fault variant: the right-hand test copied from the left-hand one
rightValidCopiedLeft(gridMap, segmentsX, segmentsY, x, y) ==
    x > 0 /\ QuadValid(gridMap, segmentsX, x - 1, y)
rightValid(gridMap, segmentsX, segmentsY, x, y) ==
    x < segmentsX - 2 /\ QuadValid(gridMap, segmentsX, x + 1, y)

\* the wall loop: for a valid cell, the two triangles of each side whose
\* neighbour is not valid (top, bottom, left, right)
WallQuad(gridMap, segmentsX, segmentsY, x, y, offset) ==
    LET tl == G(gridMap, segmentsX, x, y)
        tr == G(gridMap, segmentsX, x + 1, y)
        br == G(gridMap, segmentsX, x + 1, y + 1)
        bl == G(gridMap, segmentsX, x, y + 1)
    IN  IF QuadValid(gridMap, segmentsX, x, y)
        THEN (IF topValid(gridMap, segmentsX, segmentsY, x, y) THEN <<>>
              ELSE <<tl, offset + tr, offset + tl, tl, tr, offset + tr>>)
             \o (IF botValid(gridMap, segmentsX, segmentsY, x, y) THEN <<>>
                 ELSE <<br, bl, offset + bl, br, offset + bl, offset + br>>)
             \o (IF leftValid(gridMap, segmentsX, segmentsY, x, y) THEN <<>>
                 ELSE <<bl, tl, offset + tl, bl, offset + tl, offset + bl>>)
             \o (IF rightValid(gridMap, segmentsX, segmentsY, x, y) THEN <<>>
                 ELSE <<tr, br, offset + br, tr, offset + br, offset + tr>>)
        ELSE <<>>

\* the quads in loop order: y outer, x inner
Quads(segmentsX, segmentsY) ==
    Array([q \in 1..((segmentsX - 1) * (segmentsY - 1)) |->
        <<(q - 1) % (segmentsX - 1), (q - 1) \div (segmentsX - 1)>>])

\* indices after the three triangle loops; offset = numTopVertices
Triangulate(gridMap, segmentsX, segmentsY, offset) ==
    LET qs == Quads(segmentsX, segmentsY)
    IN  Flatten(Array([q \in 1..Len(qs) |->
                      TopQuad(gridMap, segmentsX, qs[q][1], qs[q][2])]))
        \o Flatten(Array([q \in 1..Len(qs) |->
                      BottomQuad(gridMap, segmentsX, qs[q][1], qs[q][2], offset)]))
        \o Flatten(Array([q \in 1..Len(qs) |->
                      WallQuad(gridMap, segmentsX, segmentsY, qs[q][1], qs[q][2], offset)]))

-----------------------------------------------------------------------------
(* Binary STL writer                                                       *)

\* "Binary STL from Topo-to-STL" in ASCII
HeaderText ==
    <<66, 105, 110, 97, 114, 121, 32, 83, 84, 76, 32, 102, 114, 111, 109, 32,
      84, 111, 112, 111, 45, 116, 111, 45, 83, 84, 76>>

\* fault variant: the count written big-endian (writeUInt32BE)
UInt32BEByte(value, k) == (value \div Pow2(8 * (3 - k))) % 256

\* byte k (0..3) of writeUInt32LE(value)
UInt32LEByte(value, k) == (value \div Pow2(8 * k)) % 256

\* IEEE-754 binary32 of a positive rational p/q, round to nearest even.
\* Scale(p, q, e): p/q * 2^(-e) brought into [1, 2)
RECURSIVE F32Scale(_, _, _)
F32Scale(p, q, e) ==
    IF p >= 2 * q THEN F32Scale(p, 2 * q, e + 1)
    ELSE IF p < q THEN F32Scale(2 * p, q, e - 1)
    ELSE <<p, q, e>>

\* k more quotient bits of r/q (0 <= r < q) appended to m
RECURSIVE F32Bits(_, _, _, _)
F32Bits(m, r, q, k) ==
    IF k = 0 THEN <<m, r>>
    ELSE IF 2 * r >= q THEN F32Bits(2 * m + 1, 2 * r - q, q, k - 1)
         ELSE F32Bits(2 * m, 2 * r, q, k - 1)

\* <<exponent field, 23-bit fraction>> from the 24-bit significand m, the
\* remainder flags (more than / exactly half an ulp dropped) and the exponent
F32Round(m, above, tie, e) ==
    LET up == above \/ (tie /\ m % 2 = 1)
        m2 == IF up THEN m + 1 ELSE m
    IN  IF m2 = Pow2(24) THEN <<e + 1 + 127, 0>> ELSE <<e + 127, m2 - Pow2(23)>>

F32Pack(sign, ef, k) ==
    LET E == ef[1]
        M == ef[2]
    IN  IF k = 0 THEN M % 256
        ELSE IF k = 1 THEN (M \div 256) % 256
        ELSE IF k = 2 THEN (E % 2) * 128 + (M \div 65536)
        ELSE sign * 128 + (E \div 2)

\* byte k (0..3) of writeFloatLE(v) for a rational v
FloatLEByte(v, k) ==
    IF v[1] = 0 THEN 0
    ELSE LET s == F32Scale(Abs(v[1]), v[2], 0)
             b == F32Bits(1, s[1] - s[2], s[2], 23)
         IN  F32Pack(IF v[1] < 0 THEN 1 ELSE 0,
                     F32Round(b[1], 2 * b[2] > s[2], 2 * b[2] = s[2], s[3]), k)

\* largest s with s * s <= n
RECURSIVE ISqrtFrom(_, _)
ISqrtFrom(n, s) == IF (s + 1) * (s + 1) <= n THEN ISqrtFrom(n, s + 1) ELSE s
ISqrt(n) == ISqrtFrom(n, 0)

\* P/Q * 4^(-e) brought into [1, 4)
RECURSIVE SqrtScale(_, _, _)
SqrtScale(p, q, e) ==
    IF p >= 4 * q THEN SqrtScale(p, 4 * q, e + 1)
    ELSE IF p < q THEN SqrtScale(4 * p, q, e - 1)
    ELSE <<p, q, e>>

\* k more bits of sqrt(P/Q): m is the root so far, r = P*4^j - m*m*Q
RECURSIVE SqrtBits(_, _, _, _)
SqrtBits(m, r, q, k) ==
    IF k = 0 THEN <<m, r>>
    ELSE IF 4 * r >= (4 * m + 1) * q
         THEN SqrtBits(2 * m + 1, 4 * r - (4 * m + 1) * q, q, k - 1)
         ELSE SqrtBits(2 * m, 4 * r, q, k - 1)

\* byte k of writeFloatLE(c / Math.sqrt(len2)) for rationals c and len2 > 0
FloatLESurdByte(c, len2, k) ==
    IF c[1] = 0 THEN 0
    ELSE LET x2 == RDiv(RMul(c, c), len2)
             root == ISqrt(x2[1] * x2[2])
         IN  IF root * root = x2[1] * x2[2]
             THEN FloatLEByte(Rat((IF c[1] < 0 THEN -1 ELSE 1) * root, x2[2]), k)
             ELSE LET s == SqrtScale(x2[1], x2[2], 0)
                      b == SqrtBits(1, s[1] - s[2], s[2], 23)
                      \* sqrt is irrational here: never a tie
                      above == 4 * b[2] >= (4 * b[1] + 1) * s[2]
                  IN  F32Pack(IF c[1] < 0 THEN 1 ELSE 0,
                              F32Round(b[1], above, FALSE, s[3]), k)

\* vertex i of `vertices` as <<x, y, z>>
Vertex(vertices, i) ==
    <<At(vertices, i * 3), At(vertices, i * 3 + 1), At(vertices, i * 3 + 2)>>

VSub(a, b) == <<RSub(a[1], b[1]), RSub(a[2], b[2]), RSub(a[3], b[3])>>
Cross(u, v) ==
    <<RSub(RMul(u[2], v[3]), RMul(u[3], v[2])),
      RSub(RMul(u[3], v[1]), RMul(u[1], v[3])),
      RSub(RMul(u[1], v[2]), RMul(u[2], v[1]))>>
Len2(n) == RAdd(RAdd(RMul(n[1], n[1]), RMul(n[2], n[2])), RMul(n[3], n[3]))

\* the un-normalised normal of triangle t
TriNormal(vertices, indices, t) ==
    LET v1 == Vertex(vertices, At(indices, t * 3))
        v2 == Vertex(vertices, At(indices, t * 3 + 1))
        v3 == Vertex(vertices, At(indices, t * 3 + 2))
    IN  Cross(VSub(v2, v1), VSub(v3, v1))

\* fault variant: the normal is divided by its length even when that is zero
\* (0 / 0 is NaN, written as 00 00 c0 7f)
TriangleByteAlwaysDivides(vertices, indices, t, f) ==
    LET slot == f \div 4
        k == f % 4
        n == TriNormal(vertices, indices, t)
    IN  IF f >= 48 THEN 0
        ELSE IF slot < 3
             THEN IF Len2(n)[1] > 0
                  THEN FloatLESurdByte(n[slot + 1], Len2(n), k)
                  ELSE <<0, 0, 192, 127>>[k + 1]
             ELSE FloatLEByte(
                      Vertex(vertices, At(indices, t * 3 + ((slot - 3) \div 3)))
                          [((slot - 3) % 3) + 1], k)

\* byte f (0..49) of the record of triangle t
TriangleByte(vertices, indices, t, f) ==
    LET slot == f \div 4
        k == f % 4
        n == TriNormal(vertices, indices, t)
    IN  IF f >= 48 THEN 0
        ELSE IF slot < 3
             THEN IF Len2(n)[1] > 0
                  THEN FloatLESurdByte(n[slot + 1], Len2(n), k)
                  ELSE FloatLEByte(n[slot + 1], k)
             ELSE FloatLEByte(
                      Vertex(vertices, At(indices, t * 3 + ((slot - 3) \div 3)))
                          [((slot - 3) % 3) + 1], k)

\* createSTLBinary(vertices, indices): the Buffer, byte offset -> byte
createSTLBinary(vertices, indices) ==
    LET triangleCount == Len(indices) \div 3
        bufferSize == 80 + 4 + triangleCount * 50
    IN  [o \in 0..(bufferSize - 1) |->
            IF o < 80 THEN (IF o < Len(HeaderText) THEN HeaderText[o + 1] ELSE 0)
            ELSE IF o < 84 THEN UInt32LEByte(triangleCount, o - 80)
            ELSE TriangleByte(vertices, indices, (o - 84) \div 50, (o - 84) % 50)]

\* buf.length and buf.readUInt32LE(offset)
BufLength(buf) == Cardinality(DOMAIN buf)
readUInt32LE(buf, offset) ==
    buf[offset] + 256 * buf[offset + 1] + 65536 * buf[offset + 2]
        + 16777216 * buf[offset + 3]

-----------------------------------------------------------------------------
(* The fallback ladder                                                     *)

getZoomLevel(opt) == ZOOM_BY_RES[opt.resolution]

\* fault variant: the zoom loop of a tier runs upwards from MIN_ZOOM
TierAttemptsAscending(resolution) ==
    Array([k \in 1..(ZOOM_BY_RES[resolution] - MIN_ZOOM + 1) |->
        [zoom |-> MIN_ZOOM + k - 1,
         maxSegments |-> SEGMENTS_BY_RES[resolution]]])

\* the zooms startZoom, startZoom - 1, ..., MIN_ZOOM paired with maxSegments
TierAttempts(resolution) ==
    Array([k \in 1..(ZOOM_BY_RES[resolution] - MIN_ZOOM + 1) |->
        [zoom |-> ZOOM_BY_RES[resolution] - k + 1,
         maxSegments |-> SEGMENTS_BY_RES[resolution]]])

\* fault variant: only the requested tier, no coarser tier after it
getFallbackAttemptsOwnTier(opt) == TierAttempts(opt.resolution)

getFallbackAttempts(opt) ==
    LET i == IndexOf(RESOLUTION_ORDER, opt.resolution)
    IN  Flatten(Array([k \in 1..i |-> TierAttempts(RESOLUTION_ORDER[i - k + 1])]))

-----------------------------------------------------------------------------
(* Tile range and grid size of one attempt                                 *)

\* long2tile / lat2tile: a coordinate is kept as its tile index at zoom
\* TOP_ZOOM; floor(u * 2^zoom) = floor(floor(u * 2^TOP_ZOOM) / 2^(TOP_ZOOM - zoom))
long2tile(lon14, zoom) == lon14 \div Pow2(TOP_ZOOM - zoom)
lat2tile(lat14, zoom) == lat14 \div Pow2(TOP_ZOOM - zoom)

RasterWidth(bounds, zoom) ==
    (long2tile(bounds.east, zoom) - long2tile(bounds.west, zoom) + 1) * TILE_SIZE
RasterHeight(bounds, zoom) ==
    (lat2tile(bounds.south, zoom) - lat2tile(bounds.north, zoom) + 1) * TILE_SIZE

\* the while loop that lowers actualZoom
RECURSIVE FitZoom(_, _)
FitZoom(bounds, zoom) ==
    IF (RasterWidth(bounds, zoom) > MAX_PIXELS \/ RasterHeight(bounds, zoom) > MAX_PIXELS)
       /\ zoom > MIN_ZOOM
    THEN FitZoom(bounds, zoom - 1)
    ELSE zoom

\* segmentsX, in model cells
SegmentsX(width, maxSegments) == Max(2, Min(width, maxSegments) \div SegUnit)
SegmentsY(segmentsX, aspectRatio) == Max(2, RRound(RDiv(RInt(segmentsX), aspectRatio)))

\* the locals of generateAtResolution(zoom, maxSegments) before its first await
AttemptLocals(opt, a) ==
    LET az == FitZoom(opt.bounds, a.zoom)
        w == RasterWidth(opt.bounds, az)
        sx == SegmentsX(w, a.maxSegments)
    IN  [zoom |-> a.zoom, maxSegments |-> a.maxSegments, actualZoom |-> az,
         width |-> w, height |-> RasterHeight(opt.bounds, az),
         segmentsX |-> sx, segmentsY |-> SegmentsY(sx, opt.bounds.aspectRatio)]

NoAttempt ==
    [zoom |-> 0, maxSegments |-> 0, actualZoom |-> 0, width |-> 0, height |-> 0,
     segmentsX |-> 0, segmentsY |-> 0]

-----------------------------------------------------------------------------
(* One attempt from the elevation data to the buffer                       *)

NoError == [message |-> "", attempt |-> 0]
Error(msg, i) == [message |-> msg, attempt |-> i]

VenusError == "Could not load Venus Magellan elevation data. The service may be unavailable."
NoVerticesError == "No vertices generated. Check selection bounds and shape."
NoTrianglesError ==
    "No mesh triangles generated. Try a larger area, rectangle shape, or different location."
\* exceptions of the runtime inside an attempt (canvas allocation, call stack)
RuntimeErrors == {"RangeError: Maximum call stack size exceeded"}

\* fault variant: the triangleCount check is missing
MeshResultNoTriangleCheck(src, elevGrid, gridMap, top, indices, segmentsX, segmentsY) ==
    [error |-> IF Len(top) \div 3 = 0 THEN NoVerticesError ELSE "",
     src |-> src, elevGrid |-> elevGrid, gridMap |-> gridMap,
     vertices |-> IF Len(top) \div 3 = 0 THEN <<>> ELSE WithBottom(top),
     indices |-> IF Len(top) \div 3 = 0 THEN <<>> ELSE indices,
     numTopVertices |-> Len(top) \div 3,
     segmentsX |-> segmentsX, segmentsY |-> segmentsY]

\* the checks on numTopVertices and triangleCount, and what the attempt holds
\* when it calls createSTLBinary; error # "" when it throws
MeshResult(src, elevGrid, gridMap, top, indices, segmentsX, segmentsY) ==
    [error |-> IF Len(top) \div 3 = 0 THEN NoVerticesError
               ELSE IF Len(indices) \div 3 = 0 THEN NoTrianglesError
               ELSE "",
     src |-> src, elevGrid |-> elevGrid, gridMap |-> gridMap,
     vertices |-> IF Len(top) \div 3 = 0 THEN <<>> ELSE WithBottom(top),
     indices |-> IF Len(top) \div 3 = 0 THEN <<>> ELSE indices,
     numTopVertices |-> Len(top) \div 3,
     segmentsX |-> segmentsX, segmentsY |-> segmentsY]

\* the triangles, with offset = numTopVertices = vertices.length / 3
MeshFromTop(src, elevGrid, gridMap, top, segmentsX, segmentsY) ==
    MeshResult(src, elevGrid, gridMap, top,
               Triangulate(gridMap, segmentsX, segmentsY, Len(top) \div 3),
               segmentsX, segmentsY)

\* the top-surface loop
MeshFromGrid(opt, src, elevGrid, gridMap, minElev, maxElev, segmentsX, segmentsY) ==
    MeshFromTop(src, elevGrid, gridMap,
                TopVertices(opt, elevGrid, minElev, maxElev, segmentsX, segmentsY),
                segmentsX, segmentsY)

\* min / max of the samples, then the median filter
MeshFromSamples(opt, src, sampled, segmentsX, segmentsY) ==
    MeshFromGrid(opt, src, ElevGrid(opt, src, sampled, segmentsX, segmentsY),
                 GridMap(opt.shape, segmentsX, segmentsY),
                 MinElev(sampled), MaxElev(sampled), segmentsX, segmentsY)

\* everything generateAtResolution computes once the elevation source src is
\* known
BuildMesh(opt, a, src) ==
    MeshFromSamples(opt, src, SampleGrid(opt, src, a.segmentsX, a.segmentsY),
                    a.segmentsX, a.segmentsY)

NoSource ==
    [hasUsgs |-> FALSE, usgsElev |-> <<>>, failed |-> {}, image |-> <<>>, data |-> <<>>]
NoMesh ==
    [error |-> "", src |-> NoSource, elevGrid |-> <<>>, gridMap |-> <<>>,
     vertices |-> <<>>, indices |-> <<>>, numTopVertices |-> 0,
     segmentsX |-> 0, segmentsY |-> 0]

-----------------------------------------------------------------------------
(* What the remote services can answer                                     *)

PixelLow == <<128, 1, 0, 255>>
PixelHigh == <<130, 2, 0, 255>>
PixelGap == <<0, 0, 0, 0>>
UsgsLow == RInt(10)
UsgsHigh == RInt(500)

\* the cells a pattern may single out: centre first, then first, last, ...
ProbeCells(n) == {<<n \div 2, 0, n - 1, 1>>[k] : k \in 1..Min(ProbeCount, 4)}

\* gap / peak patterns over n sampled cells: flat, no sample anywhere, one
\* gap, one peak, and a step (the second half of the cells is high)
Patterns(n) ==
    {[gaps |-> {}, peaks |-> {}], [gaps |-> 0..(n - 1), peaks |-> {}],
     [gaps |-> {}, peaks |-> (n \div 2)..(n - 1)]}
    \cup {[gaps |-> {c}, peaks |-> {}] : c \in ProbeCells(n)}
    \cup {[gaps |-> {}, peaks |-> {c}] : c \in ProbeCells(n)}

\* the tile <<offsetX, offsetY>> that covers the canvas pixel grid cell i
\* samples (imgX, imgY of getElevation)
TileOfCell(a, i) ==
    LET imgX == ((i % a.segmentsX) * (a.width - 1)) \div (a.segmentsX - 1)
        imgY == ((i \div a.segmentsX) * (a.height - 1)) \div (a.segmentsY - 1)
    IN  <<imgX \div TILE_SIZE, imgY \div TILE_SIZE>>

\* the tiles of the attempt's range, by their offsets x - xMin, y - yMin
Tiles(a) ==
    (0..((a.width \div TILE_SIZE) - 1)) \X (0..((a.height \div TILE_SIZE) - 1))

\* fault variant: one failed tile leaves the whole canvas empty
loadTileRejectsAll(failed, tile, pixel) ==
    IF failed # {} THEN PixelGap ELSE pixel

\* loadTile: the canvas pixel under a cell once the tile's promise settled;
\* drawImage wrote the tile's pixel, or the catch block left the canvas as
\* createCanvas made it (transparent)
loadTile(failed, tile, pixel) ==
    IF tile \in failed THEN PixelGap ELSE pixel

\* what the tile loads of an attempt can leave, as <<failed tiles, image>>:
\* every image pattern with all tiles loaded, and the flat image with the
\* first tile or with all tiles failed
TileOutcomes(a) ==
    ({{}} \X {Array([k \in 1..(a.segmentsX * a.segmentsY) |->
                        IF (k - 1) \in pat.gaps THEN PixelGap
                        ELSE IF (k - 1) \in pat.peaks THEN PixelHigh
                        ELSE PixelLow]) : pat \in Patterns(a.segmentsX * a.segmentsY)})
    \cup ({{<<0, 0>>}, Tiles(a)}
            \X {Array([k \in 1..(a.segmentsX * a.segmentsY) |-> PixelLow])})

\* the canvas pixels under the grid cells after Promise.all(tilePromises)
TileSources(a) ==
    {[hasUsgs |-> FALSE, usgsElev |-> <<>>, failed |-> o[1], image |-> o[2],
      data |-> Array([k \in 1..Len(o[2]) |->
                  loadTile(o[1], TileOfCell(a, k - 1), o[2][k])])] :
        o \in TileOutcomes(a)}

\* a catalog answer (at least one sample) or a global raster read
UsgsAnswer(n, pat) ==
    [hasUsgs |-> TRUE, failed |-> {}, image |-> <<>>, data |-> <<>>,
     usgsElev |-> Array([k \in 1..n |-> IF (k - 1) \in pat.gaps THEN NaN
                                        ELSE IF (k - 1) \in pat.peaks THEN UsgsHigh
                                        ELSE UsgsLow])]

\* fetchPlanetaryStacElevation returns data only when hasData
UsgsSources(n) ==
    {UsgsAnswer(n, pat) : pat \in {q \in Patterns(n) : q.gaps # 0..(n - 1)}}

\* fetchVenusMagellanElevation returns what it read, even if all of it is no-data
VenusSources(n) == {UsgsAnswer(n, pat) : pat \in Patterns(n)}

-----------------------------------------------------------------------------
(* Requests                                                                *)

\* bounds: west / east / north / south as tile indices at zoom TOP_ZOOM,
\* with the aspect ratio and the width in metres the same bounds give
Regions ==
    { \* 8 tiles wide at zoom 14, twice as wide as high
      [west |-> 3, east |-> 10, north |-> 0, south |-> 3,
       aspectRatio |-> RInt(2), realWidthMeters |-> 10000],
      \* 17 tiles at zoom 14: wider than MAX_PIXELS
      [west |-> 0, east |-> 16, north |-> 0, south |-> 16,
       aspectRatio |-> RInt(1), realWidthMeters |-> 20000] }

\* lithophane and invert vary for Earth requests; the other planets are
\* requested in terrain mode
Options ==
    {o \in [bounds : Regions,
            exaggeration : {Rat(3, 2)},
            baseHeight : {2},
            modelWidth : {100},
            resolution : {"low", "medium", "high", "ultra"},
            shape : {"rectangle", "oval"},
            planet : {"earth", "mars", "moon", "venus"},
            lithophane : BOOLEAN,
            invert : BOOLEAN] :
        o.planet # "earth" => (~o.lithophane /\ ~o.invert)}

-----------------------------------------------------------------------------
(* TerrainGenerator: constructor and generate()                            *)

\* the constructor's choice of elevationSource
SourceOfPlanet(planet) ==
    IF planet = "mars" THEN "mars"
    ELSE IF planet = "moon" THEN "moon"
    ELSE IF planet = "venus" THEN "venus"
    ELSE "terrarium"

Init ==
    /\ options \in Options
    /\ pc = "new"
    /\ attempts = <<>>
    /\ idx = 0
    /\ calls = <<>>
    /\ lastError = NoError
    /\ thrown = NoError
    /\ fallbackTriggered = FALSE
    /\ elevationSource = SourceOfPlanet(options.planet)
    /\ moonUsedKaguya = FALSE
    /\ att = NoAttempt
    /\ mesh = NoMesh
    /\ buffer = <<>>

\* the first await of generateAtResolution
FirstAwait(planet) ==
    IF planet = "moon" THEN "search" ELSE IF planet = "venus" THEN "venus" ELSE "tiles"

\* the for loop calls generateAtResolution for list[i], which runs to its first await
StartAttempt(list, i) ==
    /\ idx' = i
    /\ calls' = Append(calls, list[i])
    /\ att' = AttemptLocals(options, list[i])
    /\ pc' = FirstAwait(options.planet)

\* fault variant: the loop skips an attempt after a failure
SkipAttempt(i) == i + 2

\* the index the for loop moves to after attempt i failed
NextAttempt(i) == i + 1

\* fault variant: the catch block keeps the first error (lastError ??= err)
CatchKeepsFirst(err, kaguya) ==
    /\ lastError' = (IF lastError = NoError THEN err ELSE lastError)
    /\ moonUsedKaguya' = kaguya
    /\ IF NextAttempt(idx) <= Len(attempts)
       THEN StartAttempt(attempts, NextAttempt(idx)) /\ thrown' = thrown
       ELSE /\ pc' = "threw"
            /\ thrown' = (IF lastError = NoError THEN err ELSE lastError)
            /\ UNCHANGED <<idx, calls, att>>
    /\ UNCHANGED <<options, attempts, fallbackTriggered, elevationSource, mesh, buffer>>

\* the catch block, and what the loop does next: the next attempt, or the
\* throw after the loop
Catch(err, kaguya) ==
    /\ lastError' = err
    /\ moonUsedKaguya' = kaguya
    /\ IF NextAttempt(idx) <= Len(attempts)
       THEN StartAttempt(attempts, NextAttempt(idx)) /\ thrown' = thrown
       ELSE pc' = "threw" /\ thrown' = err /\ UNCHANGED <<idx, calls, att>>
    /\ UNCHANGED <<options, attempts, fallbackTriggered, elevationSource, mesh, buffer>>

\* fault variant: only the maxSegments half of the test
BelowRequestedSegmentsOnly(opt, a) ==
    a.maxSegments < SEGMENTS_BY_RES[opt.resolution]

\* the test that sets fallbackTriggered after a successful attempt
BelowRequested(opt, a) ==
    a.zoom < getZoomLevel(opt) \/ a.maxSegments < SEGMENTS_BY_RES[opt.resolution]

\* return buffer
Return(m, kaguya) ==
    /\ pc' = "returned"
    /\ mesh' = m
    /\ moonUsedKaguya' = kaguya
    /\ fallbackTriggered' = (fallbackTriggered \/ BelowRequested(options, att))
    /\ UNCHANGED <<options, attempts, idx, calls, lastError, thrown,
                   elevationSource, att, buffer>>

\* the rest of the attempt once the elevation source is known
Settle(m, kaguya) ==
    IF m.error # "" THEN Catch(Error(m.error, idx), kaguya) ELSE Return(m, kaguya)

Finish(src, kaguya) == Settle(BuildMesh(options, att, src), kaguya)

\* generate(): build the ladder and start its first attempt
Generate ==
    /\ pc = "new"
    /\ attempts' = getFallbackAttempts(options)
    /\ StartAttempt(attempts', 1)
    /\ UNCHANGED <<options, lastError, thrown, fallbackTriggered,
                   elevationSource, moonUsedKaguya, mesh, buffer>>

\* the catalog search of fetchPlanetaryStacElevation settled: it failed or
\* its 15 s timeout fired or it found no feature (null: tiles are loaded
\* next), or it listed features, whose rasters are read next
SearchSettled ==
    /\ pc = "search"
    /\ pc' \in {"tiles", "stac"}
    /\ UNCHANGED <<options, attempts, idx, calls, lastError, thrown,
                   fallbackTriggered, elevationSource, moonUsedKaguya, att, mesh, buffer>>

\* the raster reads of fetchPlanetaryStacElevation are done: no sample (null:
\* tiles are loaded next) or data
StacResolved ==
    /\ pc = "stac"
    /\ \/ /\ pc' = "tiles"
          /\ UNCHANGED <<options, attempts, idx, calls, lastError, thrown,
                         fallbackTriggered, elevationSource, moonUsedKaguya, att, mesh, buffer>>
       \/ \E src \in UsgsSources(att.segmentsX * att.segmentsY) : Finish(src, TRUE)

\* fetchVenusMagellanElevation resolved: null throws, data goes on
VenusResolved ==
    /\ pc = "venus"
    /\ \/ Catch(Error(VenusError, idx), moonUsedKaguya)
       \/ \E src \in VenusSources(att.segmentsX * att.segmentsY) :
              Finish(src, moonUsedKaguya)

\* Promise.all(tilePromises) resolved: every loadTile drew its tile or left a gap
TilesSettled ==
    /\ pc = "tiles"
    /\ \E src \in TileSources(att) :
           Finish(src, moonUsedKaguya)

\* the attempt throws something else (createCanvas, getImageData, an
\* allocation, Math.min(...validElevs)); for the Moon the catalog answered
\* first, with data or without
AttemptThrows ==
    /\ pc \in {"search", "stac", "venus", "tiles"}
    /\ \E e \in RuntimeErrors, k \in BOOLEAN :
          /\ k => pc = "stac"
          /\ Catch(Error(e, idx), moonUsedKaguya \/ k)

Next ==
    \/ Generate
    \/ SearchSettled
    \/ StacResolved
    \/ VenusResolved
    \/ TilesSettled
    \/ AttemptThrows

Spec == Init /\ [][Next]_vars

\* generate() is called and runs whenever it can, and the catalog search
\* settles (axios timeout: 15000); loadTile's axios.get and the geotiff reads
\* (fromUrl, readRasters) are given no timeout, so nothing makes their
\* awaits settle
SpecLive == Spec /\ WF_vars(Generate) /\ WF_vars(SearchSettled)

-----------------------------------------------------------------------------
(* The wall and triangle loops on any index map                            *)

MapWidth == 3
MapHeight == 3

\* the gridMap the vertex loop leaves when exactly the cells in `present`
\* (0-based, row by row) got a vertex: indices in loop order
IndexMap(present, n) ==
    Array([k \in 1..n |->
        IF (k - 1) \in present
        THEN Cardinality({c \in present : c < k - 1})
        ELSE -1])

InitMesh ==
    /\ options = CHOOSE o \in Options : TRUE
    /\ pc = "map"
    /\ attempts = <<>>
    /\ idx = 0
    /\ calls = <<>>
    /\ lastError = NoError
    /\ thrown = NoError
    /\ fallbackTriggered = FALSE
    /\ elevationSource = "terrarium"
    /\ moonUsedKaguya = FALSE
    /\ att = NoAttempt
    /\ buffer = <<>>
    /\ \E present \in SUBSET (0..(MapWidth * MapHeight - 1)) :
          mesh = [NoMesh EXCEPT !.gridMap = IndexMap(present, MapWidth * MapHeight),
                                !.numTopVertices = Cardinality(present),
                                !.segmentsX = MapWidth,
                                !.segmentsY = MapHeight]

\* the three triangle loops of generateAtResolution on the map
BuildTriangles ==
    /\ pc = "map"
    /\ pc' = "triangulated"
    /\ mesh' = [mesh EXCEPT !.indices =
                    Triangulate(mesh.gridMap, mesh.segmentsX, mesh.segmentsY,
                                mesh.numTopVertices)]
    /\ UNCHANGED <<options, attempts, idx, calls, lastError, thrown, fallbackTriggered,
                   elevationSource, moonUsedKaguya, att, buffer>>

SpecMesh == InitMesh /\ [][BuildTriangles]_vars

-----------------------------------------------------------------------------
(* createSTLBinary on any vertex list and index list                       *)

MaxTriangles == 2

\* four vertices per list (x, y, z flat) and up to MaxTriangles index triples,
\* one of them degenerate
InitSTL ==
    /\ options = CHOOSE o \in Options : TRUE
    /\ pc = "stl"
    /\ attempts = <<>>
    /\ idx = 0
    /\ calls = <<>>
    /\ lastError = NoError
    /\ thrown = NoError
    /\ fallbackTriggered = FALSE
    /\ elevationSource = "terrarium"
    /\ moonUsedKaguya = FALSE
    /\ att = NoAttempt
    /\ buffer = <<>>
    /\ \E vs \in { <<RInt(0), RInt(0), RInt(0),  RInt(1), RInt(0), RInt(0),
                     RInt(0), RInt(1), RInt(0),  RInt(0), RInt(0), RInt(1)>>,
                   <<RInt(0), RInt(0), RInt(0),  RInt(2), RInt(0), RInt(0),
                     RInt(0), RInt(1), RInt(0),  RInt(1), RInt(1), RInt(-1)>>,
                   <<RInt(-1), RInt(0), Rat(1, 2),  RInt(1), RInt(0), Rat(1, 2),
                     RInt(0), RInt(1), Rat(1, 2),  RInt(0), RInt(0), RInt(2)>> },
          n \in 0..MaxTriangles :
       \E ts \in [1..n -> {<<0, 1, 2>>, <<0, 2, 1>>, <<0, 1, 3>>, <<1, 2, 3>>,
                           <<3, 2, 0>>, <<0, 0, 1>>}] :
       \E is \in {Flatten(ts)} :
          mesh = [NoMesh EXCEPT !.vertices = vs, !.indices = is,
                                !.numTopVertices = Len(vs) \div 3]

\* createSTLBinary(vertices, indices), every byte written
Serialize ==
    /\ pc = "stl"
    /\ pc' = "serialized"
    /\ buffer' = [o \in DOMAIN createSTLBinary(mesh.vertices, mesh.indices) |->
                     createSTLBinary(mesh.vertices, mesh.indices)[o]]
    /\ UNCHANGED <<options, attempts, idx, calls, lastError, thrown, fallbackTriggered,
                   elevationSource, moonUsedKaguya, att, mesh>>

SpecSTL == InitSTL /\ [][Serialize]_vars

-----------------------------------------------------------------------------
(* appRouter.terrain.generate: the input schema and the mutation           *)

\* coordinates of a request are whole degrees in -MaxDegree .. MaxDegree
MaxDegree == 1

\* what a client can send; options holds the input of the request
Requests ==
    [bounds : [north : -MaxDegree..MaxDegree, south : -MaxDegree..MaxDegree,
               east : -MaxDegree..MaxDegree, west : -MaxDegree..MaxDegree],
     exaggeration : {Rat(2, 5), Rat(3, 2), RInt(6)},
     baseHeight : {0, 2, 21},
     modelWidth : {100},
     resolution : {"low"},
     shape : {"rectangle"},
     planet : {"earth", "venus"},
     lithophane : {FALSE},
     invert : {FALSE}]

\* fault variant: the refinement only compares the latitudes
BoundsRefineNorthOnly(b) == b.north > b.south

\* .refine((b) => b.north > b.south && b.east > b.west, ...)
BoundsRefine(b) == b.north > b.south /\ b.east > b.west

RefineMessage == "Selection must have positive area (north > south, east > west)."

\* the issue the input schema reports for an input of the right types, or "":
\* exaggeration, baseHeight and modelWidth are z.number()
SchemaIssue(input) ==
    IF BoundsRefine(input.bounds) THEN "" ELSE RefineMessage

\* no TerrainGenerator exists
NoGenerator == "none"

InitRouter ==
    /\ options \in Requests
    /\ pc = "request"
    /\ attempts = <<>>
    /\ idx = 0
    /\ calls = <<>>
    /\ lastError = NoError
    /\ thrown = NoError
    /\ fallbackTriggered = FALSE
    /\ elevationSource = NoGenerator
    /\ moonUsedKaguya = FALSE
    /\ att = NoAttempt
    /\ mesh = NoMesh
    /\ buffer = <<>>

\* .input(schema): the input is parsed before the mutation is called; an
\* issue rejects the request
ParseInput ==
    /\ pc = "request"
    /\ IF SchemaIssue(options) # ""
       THEN pc' = "rejected" /\ thrown' = Error(SchemaIssue(options), 0)
       ELSE pc' = "parsed" /\ thrown' = thrown
    /\ UNCHANGED <<options, attempts, idx, calls, lastError, fallbackTriggered,
                   elevationSource, moonUsedKaguya, att, mesh, buffer>>

\* .mutation: new TerrainGenerator(input), whose generate() is called next
\* (Generate and the steps after it)
Mutation ==
    /\ pc = "parsed"
    /\ pc' = "new"
    /\ elevationSource' = SourceOfPlanet(options.planet)
    /\ UNCHANGED <<options, attempts, idx, calls, lastError, thrown,
                   fallbackTriggered, moonUsedKaguya, att, mesh, buffer>>

SpecRouter == InitRouter /\ [][ParseInput \/ Mutation]_vars

-----------------------------------------------------------------------------
(* The size of the returned buffer, on the mesh grid cell for cell        *)

\* rectangle requests at resolution low and medium, oval requests at low, for
\* the region of the ladder model that is twice as wide as high and for a
\* strip 10 degrees wide and 0.1 degrees high on the equator
GridOptions ==
    {o \in [bounds : {r \in Regions : r.aspectRatio = RInt(2)} \cup
                     { [west |-> 0, east |-> 455, north |-> 0, south |-> 4,
                        aspectRatio |-> RInt(100), realWidthMeters |-> 1110000] },
            exaggeration : {Rat(3, 2)},
            baseHeight : {2},
            modelWidth : {100},
            resolution : {"low", "medium"},
            shape : {"rectangle", "oval"},
            planet : {"earth", "mars"},
            lithophane : {FALSE},
            invert : {FALSE}] :
        o.shape = "oval" => o.resolution = "low"}

\* the locals of generateAtResolution(zoom, maxSegments) before its first
\* await, with segmentsX = Math.max(2, Math.min(width, maxSegments))
GridLocals(opt, a) ==
    [zoom |-> a.zoom, maxSegments |-> a.maxSegments,
     actualZoom |-> FitZoom(opt.bounds, a.zoom),
     width |-> RasterWidth(opt.bounds, FitZoom(opt.bounds, a.zoom)),
     height |-> RasterHeight(opt.bounds, FitZoom(opt.bounds, a.zoom)),
     segmentsX |-> Max(2, Min(RasterWidth(opt.bounds, FitZoom(opt.bounds, a.zoom)),
                              a.maxSegments)),
     segmentsY |-> SegmentsY(Max(2, Min(RasterWidth(opt.bounds,
                                                    FitZoom(opt.bounds, a.zoom)),
                                        a.maxSegments)),
                             opt.bounds.aspectRatio)]

\* gridMap[i] !== -1 after the top-surface loop, cell by cell: a cell the
\* shape does not skip gets a vertex, whatever its sample
GridVertexCells(shape, segmentsX, segmentsY) ==
    Array([k \in 1..(segmentsX * segmentsY) |->
        ~Skipped(shape, (k - 1) % segmentsX, (k - 1) \div segmentsX,
                 segmentsX, segmentsY)])

\* idx1 !== -1 && idx2 !== -1 && idx3 !== -1 && idx4 !== -1 for the quad at
\* (x, y); FALSE where the wall loop finds no neighbour quad
GridQuadValid(present, segmentsX, segmentsY, x, y) ==
    /\ x >= 0 /\ x < segmentsX - 1
    /\ y >= 0 /\ y < segmentsY - 1
    /\ At(present, y * segmentsX + x)
    /\ At(present, y * segmentsX + x + 1)
    /\ At(present, (y + 1) * segmentsX + x + 1)
    /\ At(present, (y + 1) * segmentsX + x)

\* indices.length / 3 when the top and bottom loops emit `quads`: two
\* triangles per quad on top, two below, and two for every side of a quad
\* (top, bottom, left, right) whose neighbour is not valid
CountTriangles(quads, present, segmentsX, segmentsY) ==
    2 * Cardinality(quads) + 2 * Cardinality(quads)
    + 2 * Cardinality({w \in quads \X {<<0, -1>>, <<0, 1>>, <<-1, 0>>, <<1, 0>>} :
                          ~GridQuadValid(present, segmentsX, segmentsY,
                                         w[1][1] + w[2][1], w[1][2] + w[2][2])})

\* fault variant: the triangles are not allocated for
BufferLengthHeaderOnly(triangleCount) == 80 + 4

\* bufferSize of createSTLBinary
BufferLength(triangleCount) == 80 + 4 + triangleCount * 50

InitGrid ==
    /\ options \in GridOptions
    /\ pc = "new"
    /\ attempts = <<>>
    /\ idx = 0
    /\ calls = <<>>
    /\ lastError = NoError
    /\ thrown = NoError
    /\ fallbackTriggered = FALSE
    /\ elevationSource = SourceOfPlanet(options.planet)
    /\ moonUsedKaguya = FALSE
    /\ att = NoAttempt
    /\ mesh = NoMesh
    /\ buffer = [length |-> 0, triangleCount |-> 0]

\* generate(): the ladder, and its first attempt up to the first await
GenerateGrid ==
    /\ pc = "new"
    /\ attempts' = getFallbackAttempts(options)
    /\ idx' = 1
    /\ calls' = Append(calls, attempts'[1])
    /\ att' = GridLocals(options, attempts'[1])
    /\ pc' = FirstAwait(options.planet)
    /\ UNCHANGED <<options, lastError, thrown, fallbackTriggered,
                   elevationSource, moonUsedKaguya, mesh, buffer>>

\* the catch block of generate(), and the next attempt or the final throw
GridCatch(err) ==
    /\ lastError' = err
    /\ IF NextAttempt(idx) <= Len(attempts)
       THEN /\ idx' = NextAttempt(idx)
            /\ calls' = Append(calls, attempts[NextAttempt(idx)])
            /\ att' = GridLocals(options, attempts[NextAttempt(idx)])
            /\ pc' = FirstAwait(options.planet)
            /\ thrown' = thrown
       ELSE pc' = "threw" /\ thrown' = err /\ UNCHANGED <<idx, calls, att>>
    /\ UNCHANGED <<options, attempts, fallbackTriggered, elevationSource,
                   moonUsedKaguya, mesh, buffer>>

\* the checks on numTopVertices and triangleCount, then createSTLBinary and
\* the return of generate()
GridSettle(numTopVertices, triangleCount) ==
    IF numTopVertices = 0 THEN GridCatch(Error(NoVerticesError, idx))
    ELSE IF triangleCount = 0 THEN GridCatch(Error(NoTrianglesError, idx))
    ELSE /\ pc' = "returned"
         /\ mesh' = [NoMesh EXCEPT !.numTopVertices = numTopVertices,
                                   !.segmentsX = att.segmentsX,
                                   !.segmentsY = att.segmentsY]
         /\ buffer' = [length |-> BufferLength(triangleCount),
                       triangleCount |-> triangleCount]
         /\ fallbackTriggered' = (fallbackTriggered \/ BelowRequested(options, att))
         /\ UNCHANGED <<options, attempts, idx, calls, lastError, thrown,
                        elevationSource, moonUsedKaguya, att>>

\* the tiles were loaded and the attempt ran to its end: the vertex loop,
\* then the quads the top and bottom loops emit, then the walls
GridTilesSettled ==
    /\ pc = "tiles"
    /\ \E present \in {GridVertexCells(options.shape, att.segmentsX, att.segmentsY)} :
       \E quads \in {{q \in (0..(att.segmentsX - 2)) \X (0..(att.segmentsY - 2)) :
                         GridQuadValid(present, att.segmentsX, att.segmentsY, q[1], q[2])}} :
           GridSettle(Cardinality({k \in 1..Len(present) : present[k]}),
                      CountTriangles(quads, present, att.segmentsX, att.segmentsY))

\* the attempt throws before the mesh is built (createCanvas, getImageData)
GridAttemptThrows ==
    /\ pc = "tiles"
    /\ \E e \in RuntimeErrors : GridCatch(Error(e, idx))

SpecGrid == InitGrid /\ [][GenerateGrid \/ GridTilesSettled \/ GridAttemptThrows]_vars

-----------------------------------------------------------------------------
(* The MAX_PIXELS loop of generateAtResolution, one iteration per step     *)

\* an attempt of the longest ladder on bounds from a few tiles to the whole
\* map, after width and height were first computed
InitZoom ==
    /\ \E w \in {0, 3}, e \in {10, 16, 455, 16383}, s \in {3, 16, 16383} :
          options = [(CHOOSE o \in Options : o.resolution = "ultra") EXCEPT
                        !.bounds = [west |-> w, east |-> e, north |-> 0, south |-> s,
                                    aspectRatio |-> RInt(1),
                                    realWidthMeters |-> 10000]]
    /\ pc = "loop"
    /\ attempts = getFallbackAttempts(options)
    /\ idx \in 1..Len(attempts)
    /\ calls = SubSeq(attempts, 1, idx)
    /\ lastError = NoError
    /\ thrown = NoError
    /\ fallbackTriggered = FALSE
    /\ elevationSource = SourceOfPlanet(options.planet)
    /\ moonUsedKaguya = FALSE
    /\ att = [zoom |-> attempts[idx].zoom, maxSegments |-> attempts[idx].maxSegments,
              actualZoom |-> attempts[idx].zoom,
              width |-> RasterWidth(options.bounds, attempts[idx].zoom),
              height |-> RasterHeight(options.bounds, attempts[idx].zoom),
              segmentsX |-> 0, segmentsY |-> 0]
    /\ mesh = NoMesh
    /\ buffer = <<>>

\* fault variant: the loop condition has no floor
LowerZoomNoFloor ==
    /\ pc = "loop"
    /\ att.width > MAX_PIXELS \/ att.height > MAX_PIXELS
    /\ att.actualZoom > 0
    /\ att' = [att EXCEPT !.actualZoom = att.actualZoom - 1,
                          !.width = RasterWidth(options.bounds, att.actualZoom - 1),
                          !.height = RasterHeight(options.bounds, att.actualZoom - 1)]
    /\ UNCHANGED <<options, pc, attempts, idx, calls, lastError, thrown,
                   fallbackTriggered, elevationSource, moonUsedKaguya, mesh, buffer>>

\* one iteration of while ((width > MAX_PIXELS || height > MAX_PIXELS) &&
\* actualZoom > 5)
LowerZoom ==
    /\ pc = "loop"
    /\ att.width > MAX_PIXELS \/ att.height > MAX_PIXELS
    /\ att.actualZoom > MIN_ZOOM
    /\ att' = [att EXCEPT !.actualZoom = att.actualZoom - 1,
                          !.width = RasterWidth(options.bounds, att.actualZoom - 1),
                          !.height = RasterHeight(options.bounds, att.actualZoom - 1)]
    /\ UNCHANGED <<options, pc, attempts, idx, calls, lastError, thrown,
                   fallbackTriggered, elevationSource, moonUsedKaguya, mesh, buffer>>

\* the loop condition is false: the attempt goes on with actualZoom
LeaveZoomLoop ==
    /\ pc = "loop"
    /\ ~((att.width > MAX_PIXELS \/ att.height > MAX_PIXELS)
         /\ att.actualZoom > MIN_ZOOM)
    /\ pc' = "fitted"
    /\ UNCHANGED <<options, attempts, idx, calls, lastError, thrown, fallbackTriggered,
                   elevationSource, moonUsedKaguya, att, mesh, buffer>>

\* the loop is synchronous code: it runs on until it is left
SpecZoom ==
    /\ InitZoom
    /\ [][LowerZoom \/ LeaveZoomLoop]_vars
    /\ WF_vars(LowerZoom \/ LeaveZoomLoop)

-----------------------------------------------------------------------------
(* One median pass on any small grid                                       *)

\* a grid of 2 or 3 columns and rows after the sampling loop: every cell is
\* low, high or NaN (masked or no sample); mesh.src keeps the sampled values
InitMedian ==
    /\ options = CHOOSE o \in Options : o.planet = "earth" /\ o.shape = "rectangle"
    /\ pc = "sampled"
    /\ attempts = <<>>
    /\ idx = 0
    /\ calls = <<>>
    /\ lastError = NoError
    /\ thrown = NoError
    /\ fallbackTriggered = FALSE
    /\ elevationSource = SourceOfPlanet(options.planet)
    /\ moonUsedKaguya = FALSE
    /\ att = NoAttempt
    /\ buffer = <<>>
    /\ \E sx \in {2, 3}, sy \in {2, 3} :
       \E g \in [1..(sx * sy) -> {NaN, UsgsLow, UsgsHigh}] :
          mesh = [NoMesh EXCEPT !.src = [NoSource EXCEPT !.hasUsgs = TRUE,
                                                         !.usgsElev = Array(g)],
                                !.elevGrid = Array(g),
                                !.segmentsX = sx, !.segmentsY = sy]

\* medianPass.set(elevGrid); runMedian(elevGrid, medianPass, 1); copy back
MedianPass ==
    /\ pc = "sampled"
    /\ pc' = "filtered"
    /\ mesh' = [mesh EXCEPT !.elevGrid =
                    runMedian(mesh.elevGrid, 1, mesh.segmentsX, mesh.segmentsY)]
    /\ UNCHANGED <<options, attempts, idx, calls, lastError, thrown, fallbackTriggered,
                   elevationSource, moonUsedKaguya, att, buffer>>

SpecMedian == InitMedian /\ [][MedianPass]_vars

-----------------------------------------------------------------------------
(* fetchPlanetaryStacElevation: the asset loop and the averaging           *)

PLANET_NODATA == -32767

\* features the catalog search may list (the query asks for at most 15)
MaxFeatures == 2

\* fault variant: the no-data value counts as a sample
StacSampleValidNoSentinel(v) ==
    /\ IsFinite(v)
    /\ RLess(v, RInt(1000000))
    /\ RLess(RInt(-1000000), v)

\* Number.isFinite(v) && v !== PLANET_NODATA && v < 1e6 && v > -1e6
StacSampleValid(v) ==
    /\ IsFinite(v)
    /\ v # RInt(PLANET_NODATA)
    /\ RLess(v, RInt(1000000))
    /\ RLess(RInt(-1000000), v)

\* the search listed the features; out is filled with NaN and count with 0.
\* att holds the locals of fetchPlanetaryStacElevation.  A feature has no dtm
\* href, or its read throws, or it gives an array: one sample short, or one
\* sample per output pixel (two pixels), each NaN, the no-data value, an
\* elevation or a value beyond 1e6
InitStac ==
    /\ options = CHOOSE o \in Options : o.planet = "moon"
    /\ pc = "assets"
    /\ attempts = <<>>
    /\ idx = 0
    /\ calls = <<>>
    /\ lastError = NoError
    /\ thrown = NoError
    /\ fallbackTriggered = FALSE
    /\ elevationSource = SourceOfPlanet(options.planet)
    /\ moonUsedKaguya = FALSE
    /\ mesh = NoMesh
    /\ buffer = <<>>
    /\ \E n \in 0..MaxFeatures :
       \E fs \in [1..n ->
                {[kind |-> "nohref", arr |-> <<>>], [kind |-> "throws", arr |-> <<>>],
                 [kind |-> "data", arr |-> <<UsgsLow>>]}
                \cup {[kind |-> "data", arr |-> Array(a)] :
                        a \in [1..2 -> {NaN, RInt(PLANET_NODATA), UsgsLow, UsgsHigh,
                                        RInt(2000000)}]}] :
          att = [features |-> Array(fs), next |-> 1,
                 out |-> <<NaN, NaN>>, count |-> <<0, 0>>]

\* one iteration of for (const feat of features): the feature is skipped
\* (no href, the read threw and was caught, wrong array length) or its valid
\* samples are added to out and counted
ReadAsset ==
    /\ pc = "assets"
    /\ att.next <= Len(att.features)
    /\ att' =
          IF /\ att.features[att.next].kind = "data"
             /\ Len(att.features[att.next].arr) = Len(att.out)
          THEN [att EXCEPT
                  !.next = att.next + 1,
                  !.out = Array([i \in 1..Len(att.out) |->
                      IF StacSampleValid(att.features[att.next].arr[i])
                      THEN RAdd(IF IsFinite(att.out[i]) THEN att.out[i] ELSE RInt(0),
                                att.features[att.next].arr[i])
                      ELSE att.out[i]]),
                  !.count = Array([i \in 1..Len(att.count) |->
                      IF StacSampleValid(att.features[att.next].arr[i])
                      THEN att.count[i] + 1
                      ELSE att.count[i]])]
          ELSE [att EXCEPT !.next = att.next + 1]
    /\ UNCHANGED <<options, pc, attempts, idx, calls, lastError, thrown,
                   fallbackTriggered, elevationSource, moonUsedKaguya, mesh, buffer>>

\* after the loop: out[i] / count[i] or NaN, and null (NoSource) when no
\* feature was listed or no pixel has a sample
AverageAssets ==
    /\ pc = "assets"
    /\ att.next > Len(att.features)
    /\ pc' = "resolved"
    /\ mesh' = [mesh EXCEPT !.src =
          IF Len(att.features) = 0 \/ \A i \in 1..Len(att.count) : att.count[i] = 0
          THEN NoSource
          ELSE [NoSource EXCEPT
                  !.hasUsgs = TRUE,
                  !.usgsElev = Array([i \in 1..Len(att.out) |->
                      IF att.count[i] > 0
                      THEN RDiv(att.out[i], RInt(att.count[i]))
                      ELSE NaN])]]
    /\ UNCHANGED <<options, attempts, idx, calls, lastError, thrown, fallbackTriggered,
                   elevationSource, moonUsedKaguya, att, buffer>>

SpecStac == InitStac /\ [][ReadAsset \/ AverageAssets]_vars

-----------------------------------------------------------------------------
(* The tile loads of one attempt, settling in any order                    *)

\* an empty block of the canvas
Blank == <<>>

\* fault variant: the image is drawn at the top of its column
drawImageAtColumnTop(canvas, img, dx, dy) ==
    [b \in DOMAIN canvas |->
        IF b = <<dx \div TILE_SIZE, 0>> THEN img ELSE canvas[b]]

\* ctx.drawImage(img, dx, dy) of a TILE_SIZE x TILE_SIZE image; the canvas is
\* held block by block, one block per tile position
drawImage(canvas, img, dx, dy) ==
    [b \in DOMAIN canvas |->
        IF b = <<dx \div TILE_SIZE, dy \div TILE_SIZE>> THEN img ELSE canvas[b]]

\* every loadTile of the double loop was called and is waiting for its
\* response: att.pending holds <<x - xMin, y - yMin>> of each, the canvas is
\* new.  Rasters of one to three tiles by one or two tiles.
InitTiles ==
    /\ options = CHOOSE o \in Options : o.planet = "earth"
    /\ pc = "tiles"
    /\ attempts = <<>>
    /\ idx = 0
    /\ calls = <<>>
    /\ lastError = NoError
    /\ thrown = NoError
    /\ fallbackTriggered = FALSE
    /\ elevationSource = SourceOfPlanet(options.planet)
    /\ moonUsedKaguya = FALSE
    /\ buffer = <<>>
    /\ \E nx \in 1..3, ny \in 1..2 :
          /\ att = [width |-> nx * TILE_SIZE, height |-> ny * TILE_SIZE,
                    pending |-> (0..(nx - 1)) \X (0..(ny - 1))]
          /\ mesh = [NoMesh EXCEPT !.src =
                        [NoSource EXCEPT !.data =
                            [b \in (0..(nx - 1)) \X (0..(ny - 1)) |-> Blank]]]

\* one loadTile settles: its image is drawn at (offsetX * 256, offsetY * 256),
\* or the catch block leaves the tile out; the image of a tile is named by
\* the tile
LoadTileSettles ==
    /\ pc = "tiles"
    /\ \E t \in att.pending :
          /\ att' = [att EXCEPT !.pending = att.pending \ {t}]
          /\ \/ mesh' = [mesh EXCEPT !.src.data =
                            drawImage(mesh.src.data, <<"tile", t>>,
                                      t[1] * TILE_SIZE, t[2] * TILE_SIZE)]
             \/ mesh' = [mesh EXCEPT !.src.failed = mesh.src.failed \cup {t}]
    /\ UNCHANGED <<options, pc, attempts, idx, calls, lastError, thrown,
                   fallbackTriggered, elevationSource, moonUsedKaguya, buffer>>

\* Promise.all(tilePromises) resolved; ctx.getImageData reads the canvas
GetImageData ==
    /\ pc = "tiles"
    /\ att.pending = {}
    /\ pc' = "read"
    /\ mesh' = [mesh EXCEPT !.src.image = mesh.src.data]
    /\ UNCHANGED <<options, attempts, idx, calls, lastError, thrown, fallbackTriggered,
                   elevationSource, moonUsedKaguya, att, buffer>>

SpecTiles == InitTiles /\ [][LoadTileSettles \/ GetImageData]_vars

-----------------------------------------------------------------------------
(* Properties                                                              *)

NumTriangles(indices) == Len(indices) \div 3

\* the three vertex indices of triangle t (1-based), as a set
Corners(indices, t) == {indices[3 * t - 2], indices[3 * t - 1], indices[3 * t]}

\* the undirected edges of triangle t
EdgesOf(indices, t) ==
    {{indices[3 * t - 2], indices[3 * t - 1]},
     {indices[3 * t - 1], indices[3 * t]},
     {indices[3 * t], indices[3 * t - 2]}}

\* how many triangles have the edge e
EdgeUse(indices, e) ==
    Cardinality({t \in 1..NumTriangles(indices) : e \subseteq Corners(indices, t)})

\* edge-adjacency counting: every edge of every triangle lies on exactly two
\* triangles, and no triangle is degenerate
EveryEdgeTwice(indices) ==
    \A t \in 1..NumTriangles(indices) :
        /\ Cardinality(Corners(indices, t)) = 3
        /\ \A e \in EdgesOf(indices, t) : EdgeUse(indices, e) = 2

\* the raster of the returned mesh had a cell without an elevation sample
HasGap(m) ==
    \/ \E k \in 1..Len(m.src.data) : m.src.data[k] = PixelGap
    \/ \E k \in 1..Len(m.src.usgsElev) : m.src.usgsElev[k] = NaN

\* C1: every mesh generate() returns, for rectangle and oval and for any
\* pattern of missing samples, has every undirected edge of its triangles
\* (top, bottom, walls together) on exactly two triangles.
C1_ReturnedMeshClosed ==
    pc = "returned" => EveryEdgeTwice(mesh.indices)

\* an oval mesh of more than one quad returned from a raster with a gap
C1_Witness ==
    /\ pc = "returned"
    /\ options.shape = "oval"
    /\ HasGap(mesh)
    /\ NumTriangles(mesh.indices) > 12

Running == {"search", "stac", "venus", "tiles"}

\* C2: generate() calls the attempts in list order, one at a time; the
\* attempt it returns from is the first that did not fail (every earlier one
\* was caught), and nothing is started after the return.
C2_AttemptsInListOrder ==
    /\ [](/\ calls = SubSeq(attempts, 1, idx)
          /\ pc \in Running \cup {"returned"} =>
                /\ lastError.attempt = idx - 1
                /\ thrown = NoError
          /\ pc = "returned" =>
                /\ mesh.error = ""
                /\ att = AttemptLocals(options, attempts[idx])
                /\ mesh.segmentsX = att.segmentsX /\ mesh.segmentsY = att.segmentsY)
    /\ [][pc \notin {"returned", "threw"}]_vars

\* a return from the third attempt, after two caught failures
C2_Witness ==
    pc = "returned" /\ idx = 3 /\ Len(calls) = 3 /\ lastError.attempt = 2

\* C3: after a successful generate(), fallbackTriggered is true exactly when
\* the successful attempt's zoom or maxSegments is below the requested
\* resolution's own pair, and false when the first attempt succeeded.
C3_FallbackFlagIffBelow ==
    pc = "returned" =>
        /\ fallbackTriggered =
              (\/ attempts[idx].zoom < ZOOM_BY_RES[options.resolution]
               \/ attempts[idx].maxSegments < SEGMENTS_BY_RES[options.resolution])
        /\ idx = 1 => ~fallbackTriggered
        /\ idx > 1 => fallbackTriggered

\* a success at the requested maxSegments and a lower zoom
C3_Witness ==
    /\ pc = "returned"
    /\ fallbackTriggered
    /\ attempts[idx].maxSegments = SEGMENTS_BY_RES[options.resolution]
    /\ attempts[idx].zoom < ZOOM_BY_RES[options.resolution]

\* C4: when every attempt failed, generate() rejects with the error of the
\* last attempt as it was thrown, and returns nothing; it rejects in no
\* other case.
C4_ExhaustionSurfacesLastError ==
    /\ (pc = "threw") = (thrown # NoError)
    /\ (pc # "new" /\ lastError.attempt = Len(attempts)) => pc = "threw"
    /\ pc = "threw" =>
          /\ idx = Len(attempts)
          /\ calls = attempts
          /\ thrown = lastError
          /\ thrown.attempt = Len(attempts)
          /\ thrown.message \in {VenusError, NoVerticesError, NoTrianglesError}
                                  \cup RuntimeErrors
          /\ mesh = NoMesh

\* a rejection after a ladder of more than one tier
C4_Witness ==
    pc = "threw" /\ Len(attempts) > 7 /\ thrown.attempt = Len(attempts)

\* cell k (1-based, row by row) of a segmentsX-wide grid is inside the shape
InsideMask(shape, k, segmentsX, segmentsY) ==
    ~Skipped(shape, (k - 1) % segmentsX, (k - 1) \div segmentsX, segmentsX, segmentsY)

\* cell k of the raster behind mesh m holds an elevation sample
HasSample(opt, m, k) == IsFinite(getElevation(opt.planet, m.src, k - 1))

\* the cells of mesh m
Cells(m) == 1..(m.segmentsX * m.segmentsY)

\* C7 as stated: a cell has a vertex exactly when it is inside the mask and
\* holds a sample; cells without a sample are absent from the index map.
C7_VertexIffMaskAndSample ==
    pc = "returned" =>
        \A k \in Cells(mesh) :
            (mesh.gridMap[k] # -1) =
                (/\ InsideMask(options.shape, k, mesh.segmentsX, mesh.segmentsY)
                 /\ HasSample(options, mesh, k))

\* C7, amended: a cell has one top and one bottom vertex (same XY, height 0)
\* exactly when it is inside the shape mask; a cell inside the mask without a
\* sample has its top vertex at the height of the minimum elevation; only
\* masked cells are -1 in the index map.
C7_VertexIffInsideMask ==
    pc = "returned" =>
        LET sx == mesh.segmentsX
            sy == mesh.segmentsY
            n == mesh.numTopVertices
            inside == {k \in Cells(mesh) : InsideMask(options.shape, k, sx, sy)}
            sampled == SampleGrid(options, mesh.src, sx, sy)
        IN  /\ n = Cardinality(inside)
            /\ Len(mesh.vertices) = 2 * 3 * n
            /\ \A k \in Cells(mesh) \ inside : mesh.gridMap[k] = -1
            /\ \A k \in inside :
                  /\ mesh.gridMap[k] \in 0..(n - 1)
                  /\ \A j \in inside : mesh.gridMap[j] = mesh.gridMap[k] => j = k
                  /\ Vertex(mesh.vertices, mesh.gridMap[k])[1] = Px(options, (k - 1) % sx, sx)
                  /\ Vertex(mesh.vertices, mesh.gridMap[k])[2] = Py(options, (k - 1) \div sx, sy)
                  /\ Vertex(mesh.vertices, n + mesh.gridMap[k]) =
                        <<Vertex(mesh.vertices, mesh.gridMap[k])[1],
                          Vertex(mesh.vertices, mesh.gridMap[k])[2], RInt(0)>>
                  /\ ~HasSample(options, mesh, k) =>
                        Vertex(mesh.vertices, mesh.gridMap[k])[3] =
                            TopZ(options, MinElev(sampled), MinElev(sampled), MaxElev(sampled))

\* an oval mesh with a masked cell and, inside the mask, a cell without a sample
C7_Witness ==
    /\ pc = "returned"
    /\ \E k \in Cells(mesh) : mesh.gridMap[k] = -1
    /\ \E k \in Cells(mesh) :
          /\ InsideMask(options.shape, k, mesh.segmentsX, mesh.segmentsY)
          /\ ~HasSample(options, mesh, k)
          /\ mesh.gridMap[k] # -1

GeometryErrors == {NoVerticesError, NoTrianglesError}

\* the grid of the running attempt has no quad with four present corners
NoValidQuad(opt, a) ==
    \A q \in 1..Len(Quads(a.segmentsX, a.segmentsY)) :
        ~QuadValid(GridMap(opt.shape, a.segmentsX, a.segmentsY), a.segmentsX,
                   Quads(a.segmentsX, a.segmentsY)[q][1],
                   Quads(a.segmentsX, a.segmentsY)[q][2])

\* C8: an attempt with zero top vertices or zero triangles throws a mesh
\* error that generate() catches: it goes on with the next attempt of the
\* list; and no mesh generate() returns has zero triangles.
C8_GeometryFailureRetries ==
    /\ [](pc = "returned" =>
            /\ mesh.numTopVertices > 0
            /\ NumTriangles(mesh.indices) > 0)
    /\ [][/\ (pc \in Running /\ NoValidQuad(options, att)) =>
                /\ pc' # "returned"
                /\ \/ lastError'.attempt = idx
                   \/ (pc' \in Running /\ idx' = idx /\ lastError' = lastError)
          /\ (lastError' # lastError /\ lastError'.message \in GeometryErrors) =>
                /\ lastError'.attempt = idx
                /\ NoValidQuad(options, att)
                /\ mesh' = NoMesh
                /\ idx < Len(attempts) =>
                      /\ idx' = idx + 1
                      /\ calls' = Append(calls, attempts[idx + 1])
                      /\ pc' \in Running
                      /\ thrown' = NoError]_vars

\* the attempt after one that threw a mesh error is running
C8_Witness ==
    /\ pc \in Running
    /\ lastError.message \in GeometryErrors
    /\ lastError.attempt = idx - 1

\* the raster at the requested resolution's zoom is more than MAX_PIXELS wide or high
Oversized(opt) ==
    \/ RasterWidth(opt.bounds, ZOOM_BY_RES[opt.resolution]) > MAX_PIXELS
    \/ RasterHeight(opt.bounds, ZOOM_BY_RES[opt.resolution]) > MAX_PIXELS

\* C9: when the raster at the requested zoom is over MAX_PIXELS and the zoom
\* is lowered, a returned mesh is not empty and fallbackTriggered is true.
C9_OversizedSetsFallback ==
    (pc = "returned" /\ Oversized(options)) =>
        /\ NumTriangles(mesh.indices) > 0
        /\ fallbackTriggered

\* C10 as stated: along the list both zoom and maxSegments never increase.
C10_BothNeverIncrease ==
    \A i \in 1..(Len(attempts) - 1) :
        /\ attempts[i + 1].zoom <= attempts[i].zoom
        /\ attempts[i + 1].maxSegments <= attempts[i].maxSegments

\* C10, amended: along the list maxSegments never increases; while it stays
\* the same the zoom falls by one; where it falls, the tier before ended at
\* MIN_ZOOM and the zoom restarts at the coarser tier's own zoom.
C10_LadderDescendsByTier ==
    \A i \in 1..(Len(attempts) - 1) :
        /\ attempts[i + 1].maxSegments <= attempts[i].maxSegments
        /\ attempts[i + 1].maxSegments = attempts[i].maxSegments =>
              attempts[i + 1].zoom = attempts[i].zoom - 1
        /\ attempts[i + 1].maxSegments < attempts[i].maxSegments =>
              /\ attempts[i].zoom = MIN_ZOOM
              /\ attempts[i + 1].zoom > attempts[i].zoom
              /\ \E r \in DOMAIN RESOLUTION_ORDER :
                    /\ attempts[i + 1].zoom = ZOOM_BY_RES[RESOLUTION_ORDER[r]]
                    /\ attempts[i + 1].maxSegments = SEGMENTS_BY_RES[RESOLUTION_ORDER[r]]

\* the list of a request above the coarsest tier has been built
C10_Witness ==
    /\ Len(attempts) > 1
    /\ \E i \in 1..(Len(attempts) - 1) :
          attempts[i + 1].maxSegments < attempts[i].maxSegments

\* C5: for any vertex list and list of index triples the buffer is exactly
\* 84 + 50 * triangleCount bytes long, and the little-endian uint32 at
\* offset 80 is triangleCount.
C5_PayloadLengthAndCount ==
    pc = "serialized" =>
        /\ DOMAIN buffer = 0..(84 + 50 * NumTriangles(mesh.indices) - 1)
        /\ BufLength(buffer) = 84 + 50 * NumTriangles(mesh.indices)
        /\ \A o \in DOMAIN buffer : buffer[o] \in 0..255
        /\ readUInt32LE(buffer, 80) = NumTriangles(mesh.indices)

\* a buffer of two triangle records
C5_Witness ==
    pc = "serialized" /\ NumTriangles(mesh.indices) = 2 /\ BufLength(buffer) = 184

C11_VenusFetchFailureIsFatal ==
    options.planet = "venus" =>
        /\ pc # "tiles"
        /\ pc = "returned" => mesh.src.hasUsgs
        /\ lastError.message = VenusError =>
              /\ pc = "threw"
              /\ thrown = lastError
              /\ mesh = NoMesh
              /\ Len(calls) = lastError.attempt

\* C12: after a successful generate() for the Moon, moonUsedKaguya is true
\* exactly when the returned mesh was built from the catalog's elevation, and
\* false when it was built from the tile basemap, whatever earlier attempts did.
C12_KaguyaFlagMatchesSource ==
    (pc = "returned" /\ options.planet = "moon") =>
        (moonUsedKaguya = mesh.src.hasUsgs)

\* C13: a tile whose fetch or decode failed does not fail the attempt: the
\* attempt throws only what the shape mask or the runtime makes it throw; in
\* the raster of a returned mesh every cell under a failed tile is without a
\* sample (alpha 0) and every cell under another tile holds that tile's pixel.
C13_FailedTileLeavesGap ==
    /\ [](pc = "returned" /\ ~mesh.src.hasUsgs =>
            \A k \in Cells(mesh) :
                /\ TileOfCell(att, k - 1) \in Tiles(att)
                /\ TileOfCell(att, k - 1) \in mesh.src.failed =>
                      /\ mesh.src.data[k][4] = 0
                      /\ ~HasSample(options, mesh, k)
                /\ TileOfCell(att, k - 1) \notin mesh.src.failed =>
                      mesh.src.data[k] = mesh.src.image[k])
    /\ [][(pc = "tiles" /\ lastError' # lastError) =>
              \/ lastError'.message \in RuntimeErrors
              \/ /\ lastError'.message \in GeometryErrors
                 /\ NoValidQuad(options, att)]_vars

\* a mesh returned from a raster of several tiles of which one failed
C13_Witness ==
    /\ pc = "returned"
    /\ ~mesh.src.hasUsgs
    /\ \E k \in Cells(mesh) : TileOfCell(att, k - 1) \in mesh.src.failed
    /\ \E k \in Cells(mesh) :
          /\ TileOfCell(att, k - 1) \notin mesh.src.failed
          /\ HasSample(options, mesh, k)

\* C14: every remote call of an attempt has a timeout, so every attempt ends
\* and generate() eventually returns or rejects.
C14_GenerateEnds ==
    <>(pc \in {"returned", "threw"})

\* no cell of the raster behind mesh m holds a valid elevation
NoSample(opt, m) ==
    ValidElevs(SampleGrid(opt, m.src, m.segmentsX, m.segmentsY)) = {}

\* C15: having no valid elevation sample in any cell is no failure: an
\* attempt throws a mesh error only where the shape mask leaves no quad, and
\* the mesh returned from a raster without any sample is the flat block of
\* the default range [0, 100]: every top vertex at the height of elevation 0,
\* every coordinate of every vertex finite.
C15_NoSampleGivesFlatMesh ==
    /\ []((pc = "returned" /\ NoSample(options, mesh)) =>
            /\ mesh.error = ""
            /\ mesh.numTopVertices > 0
            /\ NumTriangles(mesh.indices) > 0
            /\ \A v \in 0..(2 * mesh.numTopVertices - 1) :
                  \A c \in 1..3 : IsFinite(Vertex(mesh.vertices, v)[c])
            /\ \A v \in 0..(mesh.numTopVertices - 1) :
                  Vertex(mesh.vertices, v)[3] =
                      TopZ(options, RInt(0), RInt(0), RInt(100)))
    /\ [][(pc \in Running /\ ~NoValidQuad(options, att) /\ lastError' # lastError) =>
              lastError'.message \notin GeometryErrors]_vars

\* a mesh of more than one quad returned from a raster without any sample
C15_Witness ==
    /\ pc = "returned"
    /\ NoSample(options, mesh)
    /\ mesh.numTopVertices > 4

\* the top height of cell k of the returned mesh
TopHeight(k) == Vertex(mesh.vertices, mesh.gridMap[k])[3]

\* the cells of the returned mesh inside the shape mask
Inside == {k \in Cells(mesh) :
              InsideMask(options.shape, k, mesh.segmentsX, mesh.segmentsY)}

VertexCount(shape) ==
    Len(WithBottom(TopVertices([options EXCEPT !.shape = shape], mesh.elevGrid,
                               RInt(0), RInt(100), mesh.segmentsX, mesh.segmentsY)))
        \div 3

\* C17: on the same grid the oval mesh has strictly fewer vertices than the
\* rectangle mesh (the returned mesh being one of the two).
C17_OvalFewerVertices ==
    pc = "returned" =>
        /\ Len(mesh.vertices) \div 3 = VertexCount(options.shape)
        /\ VertexCount("oval") < VertexCount("rectangle")
        /\ VertexCount("rectangle") = 2 * mesh.segmentsX * mesh.segmentsY

\* an oval mesh of more than one quad was returned
C17_Witness ==
    /\ pc = "returned"
    /\ options.shape = "oval"
    /\ mesh.numTopVertices > 4
    /\ Len(mesh.vertices) \div 3 < 2 * mesh.segmentsX * mesh.segmentsY

\* C18: a request whose bounds do not have north > south and east > west is
\* rejected by the input schema with its message, which no generation
\* failure carries; no TerrainGenerator is constructed for it and no attempt
\* (hence no network call) is made.
C18_MalformedBoundsRejected ==
    /\ ~(options.bounds.north > options.bounds.south
         /\ options.bounds.east > options.bounds.west) =>
          /\ pc \in {"request", "rejected"}
          /\ elevationSource = NoGenerator
          /\ attempts = <<>> /\ calls = <<>>
    /\ pc = "rejected" =>
          /\ thrown.message = RefineMessage
          /\ thrown.message \notin
                {VenusError, NoVerticesError, NoTrianglesError} \cup RuntimeErrors
          /\ ~(options.bounds.north > options.bounds.south
               /\ options.bounds.east > options.bounds.west)

\* a request of no area (north = south) was rejected
C18_Witness ==
    /\ pc = "rejected"
    /\ options.bounds.north = options.bounds.south
    /\ options.bounds.east > options.bounds.west

\* C19: a request with exaggeration outside [0.5, 5] or baseHeight outside
\* [1, 20] is rejected by the input schema: it is never parsed into a
\* mutation call and no TerrainGenerator is constructed for it.
C19_RangesValidated ==
    (\/ RLess(options.exaggeration, Rat(1, 2))
     \/ RLess(RInt(5), options.exaggeration)
     \/ options.baseHeight < 1
     \/ options.baseHeight > 20) =>
        /\ pc \in {"request", "rejected"}
        /\ elevationSource = NoGenerator

\* C20: for planet earth and shape rectangle, whichever attempt of the ladder
\* returned, the buffer generate() returns is longer than 1000 bytes and
\* elevationSource is "terrarium"
C20_EarthRectanglePayload ==
    (pc = "returned" /\ options.planet = "earth" /\ options.shape = "rectangle")
        => (buffer.length > 1000 /\ elevationSource = "terrarium")

\* a later attempt returned the smallest rectangle grid, 128 by 2 cells
C20_Witness ==
    /\ pc = "returned"
    /\ options.planet = "earth" /\ options.shape = "rectangle"
    /\ idx > 1
    /\ att.segmentsX = 128 /\ att.segmentsY = 2
    /\ buffer.triangleCount = 1020

\* the quads of the map of mesh m, and those with all four corners present
MapQuads(m) == (0..(m.segmentsX - 2)) \X (0..(m.segmentsY - 2))
ValidQuads(m) == {q \in MapQuads(m) : QuadValid(m.gridMap, m.segmentsX, q[1], q[2])}

\* the four directions: the neighbour's offset and the two corner cells of
\* the side, as offsets from the quad's top-left cell
Directions ==
    { [dx |-> 0, dy |-> -1, a |-> <<0, 0>>, b |-> <<1, 0>>],
      [dx |-> 0, dy |-> 1, a |-> <<0, 1>>, b |-> <<1, 1>>],
      [dx |-> -1, dy |-> 0, a |-> <<0, 0>>, b |-> <<0, 1>>],
      [dx |-> 1, dy |-> 0, a |-> <<1, 0>>, b |-> <<1, 1>>] }

\* the top-layer edge of quad q on side d with the matching bottom-layer edge
SideCorners(m, q, d) ==
    LET va == G(m.gridMap, m.segmentsX, q[1] + d.a[1], q[2] + d.a[2])
        vb == G(m.gridMap, m.segmentsX, q[1] + d.b[1], q[2] + d.b[2])
    IN  {va, vb, m.numTopVertices + va, m.numTopVertices + vb}

\* the triangles after the top and bottom surfaces (two each per valid quad)
WallTriangles(m) ==
    (4 * Cardinality(ValidQuads(m)) + 1)..NumTriangles(m.indices)

\* the wall triangles on side d of quad q
WallsOn(m, q, d) ==
    {t \in WallTriangles(m) : Corners(m.indices, t) \subseteq SideCorners(m, q, d)}

\* the neighbour of q in direction d is outside the grid or has an absent corner
OpenSide(m, q, d) == <<q[1] + d.dx, q[2] + d.dy>> \notin ValidQuads(m)

\* C21: for every fully valid quad and each direction, exactly one wall pair
\* (two triangles that join the top-layer edge of that side to the matching
\* bottom-layer edge) is emitted if the neighbouring quad in that direction
\* is outside the grid or has an absent corner, and none otherwise; a quad
\* that is not fully valid emits no wall.
C21_WallPairPerOpenSide ==
    pc = "triangulated" =>
        /\ \A q \in ValidQuads(mesh), d \in Directions :
              IF OpenSide(mesh, q, d)
              THEN /\ Cardinality(WallsOn(mesh, q, d)) = 2
                   /\ UNION {Corners(mesh.indices, t) : t \in WallsOn(mesh, q, d)}
                          = SideCorners(mesh, q, d)
              ELSE WallsOn(mesh, q, d) = {}
        /\ Cardinality(WallTriangles(mesh))
              = 2 * Cardinality({w \in ValidQuads(mesh) \X Directions :
                                    OpenSide(mesh, w[1], w[2])})

\* a map with an invalid quad, a valid quad beside it and two valid quads
\* side by side
C21_Witness ==
    /\ pc = "triangulated"
    /\ ValidQuads(mesh) # MapQuads(mesh)
    /\ \E q \in ValidQuads(mesh), d \in Directions :
          /\ <<q[1] + d.dx, q[2] + d.dy>> \in MapQuads(mesh)
          /\ OpenSide(mesh, q, d)
    /\ \E q \in ValidQuads(mesh), d \in Directions : ~OpenSide(mesh, q, d)

\* the pairs (z, segments) for z from zoom down to 5
TierPairs(zoom, segments) ==
    [k \in 1..(zoom - 4) |-> [zoom |-> zoom - k + 1, maxSegments |-> segments]]

\* the attempt list of the claim, tier by tier
LadderOf(resolution) ==
    IF resolution = "low" THEN TierPairs(11, 128)
    ELSE IF resolution = "medium" THEN TierPairs(12, 256) \o TierPairs(11, 128)
    ELSE IF resolution = "high"
         THEN TierPairs(13, 384) \o TierPairs(12, 256) \o TierPairs(11, 128)
    ELSE TierPairs(14, 1024) \o TierPairs(13, 384) \o TierPairs(12, 256)
             \o TierPairs(11, 128)

LadderLength(resolution) ==
    IF resolution = "low" THEN 7
    ELSE IF resolution = "medium" THEN 15
    ELSE IF resolution = "high" THEN 24
    ELSE 34

\* C22: the attempt list for requested tier t is, for each tier from t down
\* to low, the pairs (z, segments(tier)) for z from zoom(tier) down to 5; it
\* has 7, 15, 24 or 34 attempts, starts with the requested tier's own pair
\* and ends with (5, 128); generate() never makes more attempts than the
\* list holds.
C22_AttemptListExact ==
    /\ Len(calls) <= Len(attempts)
    /\ pc # "new" =>
          /\ attempts = LadderOf(options.resolution)
          /\ Len(attempts) = LadderLength(options.resolution)
          /\ attempts[1] = [zoom |-> ZOOM_BY_RES[options.resolution],
                            maxSegments |-> SEGMENTS_BY_RES[options.resolution]]
          /\ attempts[Len(attempts)] = [zoom |-> 5, maxSegments |-> 128]

\* every attempt of the longest list was made and failed
C22_Witness ==
    /\ pc = "threw"
    /\ options.resolution = "ultra"
    /\ Len(calls) = 34

\* C23: within one attempt the zoom is lowered one step at a time, and only
\* while the tile raster is wider or taller than 4096 px and the zoom is
\* above 5; the loop terminates; when it has ended the raster fits in 4096 by
\* 4096 or the zoom is 5; the zoom used is never below 5 and never above the
\* attempt's zoom.
C23_ZoomLoopLowersAndEnds ==
    /\ [][att'.actualZoom # att.actualZoom =>
             /\ att'.actualZoom = att.actualZoom - 1
             /\ att.width > 4096 \/ att.height > 4096
             /\ att.actualZoom > 5]_vars
    /\ <>(pc = "fitted")
    /\ [](pc = "fitted" =>
             \/ att.width <= 4096 /\ att.height <= 4096
             \/ att.actualZoom = 5)
    /\ [](/\ att.actualZoom >= 5 /\ att.actualZoom <= att.zoom
          /\ att.width = RasterWidth(options.bounds, att.actualZoom)
          /\ att.height = RasterHeight(options.bounds, att.actualZoom))

\* the loop ended at the floor, below the attempt's zoom, with a raster that
\* still does not fit
C23_Witness ==
    /\ pc = "fitted"
    /\ att.actualZoom = 5 /\ att.zoom > 5
    /\ att.width > 4096

\* the grid of the returned mesh m as sampled, and after one and two 3x3
\* median passes
SampledOf(m) == SampleGrid(options, m.src, m.segmentsX, m.segmentsY)
OncePassed(m) == runMedian(SampledOf(m), 1, m.segmentsX, m.segmentsY)
TwicePassed(m) == runMedian(OncePassed(m), 1, m.segmentsX, m.segmentsY)

\* the elevation came from a grayscale tile basemap decoded as (R+G+B)/3*100
GrayscaleProxy(m) == options.planet # "earth" /\ ~m.src.hasUsgs

\* C24: the 3x3 median filter is applied exactly twice when the elevation of
\* the attempt comes from a grayscale tile basemap decoded as (R+G+B)/3*100,
\* and exactly once when it comes from a true-elevation source.
C24_TwiceForGrayscaleProxy ==
    pc = "returned" =>
        mesh.elevGrid = (IF GrayscaleProxy(mesh) THEN TwicePassed(mesh)
                         ELSE OncePassed(mesh))

\* C24, amended: the filter is applied exactly twice when the attempt's
\* elevation comes from the Moon's tile basemap, and exactly once for every
\* other source, the Mars tile basemap included.
C24_TwiceForMoonBasemapOnly ==
    pc = "returned" =>
        mesh.elevGrid = (IF options.planet = "moon" /\ ~mesh.src.hasUsgs
                         THEN TwicePassed(mesh)
                         ELSE OncePassed(mesh))

\* a Moon mesh from the tile basemap on which the second pass changes cells
C24_Witness ==
    /\ pc = "returned"
    /\ options.planet = "moon" /\ ~mesh.src.hasUsgs
    /\ TwicePassed(mesh) # OncePassed(mesh)

\* the valid cells other than k in the 3x3 window of cell k (1-based) of the
\* grid g with segmentsX columns
ValidNeighbours(g, segmentsX, k) ==
    {j \in (1..Len(g)) \ {k} :
        /\ Abs(((j - 1) % segmentsX) - ((k - 1) % segmentsX)) <= 1
        /\ Abs(((j - 1) \div segmentsX) - ((k - 1) \div segmentsX)) <= 1
        /\ IsFinite(g[j])}

\* cell k is above all its valid neighbours, or below all of them
SpikeUp(g, segmentsX, k) ==
    \A j \in ValidNeighbours(g, segmentsX, k) : RLess(g[j], g[k])
SpikeDown(g, segmentsX, k) ==
    \A j \in ValidNeighbours(g, segmentsX, k) : RLess(g[k], g[j])

\* the pass left cell k of the sampled grid pre with a neighbour's pre-pass
\* value and not with its own
TookNeighbour(pre, post, segmentsX, k) ==
    /\ post[k] # pre[k]
    /\ \E j \in ValidNeighbours(pre, segmentsX, k) : post[k] = pre[j]

\* C25: one median pass reads only pre-pass values, ignores masked and
\* no-sample neighbours, and removes single-cell spikes: a valid cell whose
\* pre-pass value is strictly greater, or strictly smaller, than the values
\* of all valid neighbours in its 3x3 window (and that has at least one such
\* neighbour) is assigned a neighbour's value and does not keep its own.
C25_SpikeTakesNeighbour ==
    pc = "filtered" =>
        \A k \in 1..Len(mesh.elevGrid) :
            IF ~IsFinite(mesh.src.usgsElev[k])
            THEN mesh.elevGrid[k] = mesh.src.usgsElev[k]
            ELSE /\ \E j \in ValidNeighbours(mesh.src.usgsElev, mesh.segmentsX, k) \cup {k} :
                        mesh.elevGrid[k] = mesh.src.usgsElev[j]
                 /\ (/\ ValidNeighbours(mesh.src.usgsElev, mesh.segmentsX, k) # {}
                     /\ \/ SpikeUp(mesh.src.usgsElev, mesh.segmentsX, k)
                        \/ SpikeDown(mesh.src.usgsElev, mesh.segmentsX, k))
                    => TookNeighbour(mesh.src.usgsElev, mesh.elevGrid, mesh.segmentsX, k)

\* C25, amended: as above, but a cell strictly greater than all its valid
\* neighbours is replaced only if it has at least two of them (of a window
\* of two values the pass takes the greater); a cell strictly smaller than
\* all its valid neighbours is replaced if it has at least one.
C25_SpikeOfTwoNeighboursTakesNeighbour ==
    pc = "filtered" =>
        \A k \in 1..Len(mesh.elevGrid) :
            IF ~IsFinite(mesh.src.usgsElev[k])
            THEN mesh.elevGrid[k] = mesh.src.usgsElev[k]
            ELSE /\ \E j \in ValidNeighbours(mesh.src.usgsElev, mesh.segmentsX, k) \cup {k} :
                        mesh.elevGrid[k] = mesh.src.usgsElev[j]
                 /\ (\/ /\ Cardinality(ValidNeighbours(mesh.src.usgsElev,
                                                       mesh.segmentsX, k)) >= 2
                        /\ SpikeUp(mesh.src.usgsElev, mesh.segmentsX, k)
                     \/ /\ ValidNeighbours(mesh.src.usgsElev, mesh.segmentsX, k) # {}
                        /\ SpikeDown(mesh.src.usgsElev, mesh.segmentsX, k))
                    => TookNeighbour(mesh.src.usgsElev, mesh.elevGrid, mesh.segmentsX, k)
                 /\ (/\ Cardinality(ValidNeighbours(mesh.src.usgsElev,
                                                    mesh.segmentsX, k)) = 1
                     /\ SpikeUp(mesh.src.usgsElev, mesh.segmentsX, k))
                    => mesh.elevGrid[k] = mesh.src.usgsElev[k]

\* a pass over a grid with a masked cell, a high spike with two or more
\* lower neighbours, and a high cell with a single, lower neighbour
C25_Witness ==
    /\ pc = "filtered"
    /\ \E k \in 1..Len(mesh.elevGrid) : ~IsFinite(mesh.src.usgsElev[k])
    /\ \E k \in 1..Len(mesh.elevGrid) :
          /\ IsFinite(mesh.src.usgsElev[k])
          /\ Cardinality(ValidNeighbours(mesh.src.usgsElev, mesh.segmentsX, k)) >= 2
          /\ SpikeUp(mesh.src.usgsElev, mesh.segmentsX, k)
          /\ TookNeighbour(mesh.src.usgsElev, mesh.elevGrid, mesh.segmentsX, k)
    /\ \E k \in 1..Len(mesh.elevGrid) :
          /\ IsFinite(mesh.src.usgsElev[k])
          /\ Cardinality(ValidNeighbours(mesh.src.usgsElev, mesh.segmentsX, k)) = 1
          /\ SpikeUp(mesh.src.usgsElev, mesh.segmentsX, k)

\* the features whose read succeeded with an array of the right size
ReadAssets == {f \in 1..Len(att.features) :
                  /\ att.features[f].kind = "data"
                  /\ Len(att.features[f].arr) = Len(att.out)}

RECURSIVE SumAt(_, _)
SumAt(F, i) ==
    IF F = {} THEN RInt(0)
    ELSE LET f == CHOOSE g \in F : TRUE
         IN  RAdd(att.features[f].arr[i], SumAt(F \ {f}, i))

MeanAt(F, i) == IF F = {} THEN NaN ELSE RDiv(SumAt(F, i), RInt(Cardinality(F)))

\* samples that are finite and not the no-data value
Supplying(i) ==
    {f \in ReadAssets : /\ IsFinite(att.features[f].arr[i])
                        /\ att.features[f].arr[i] # RInt(-32767)}

\* ... and, in addition, strictly between -1e6 and 1e6
SupplyingInRange(i) ==
    {f \in Supplying(i) : /\ RLess(att.features[f].arr[i], RInt(1000000))
                          /\ RLess(RInt(-1000000), att.features[f].arr[i])}

\* C26: for the Moon catalog source, each output pixel equals the arithmetic
\* mean of the valid samples (finite, not the no-data value) that the
\* successfully read assets supply for that pixel, and is 'no sample' when
\* none does; an asset whose read fails or whose array has the wrong size
\* contributes nothing and does not abort the processing of the others.
C26_PixelIsMeanOfValidSamples ==
    (pc = "resolved" /\ mesh.src.hasUsgs) =>
        \A i \in 1..Len(att.out) : mesh.src.usgsElev[i] = MeanAt(Supplying(i), i)

\* C26, amended: a sample is valid when it is finite, not the no-data value
\* and strictly between -1e6 and 1e6; each output pixel is the mean of the
\* valid samples of the successfully read assets, 'no sample' when there is
\* none; a failed or wrong-sized asset contributes nothing and the others
\* are still processed; there is no output when no pixel has a valid sample.
C26_PixelIsMeanOfSamplesInRange ==
    pc = "resolved" =>
        /\ mesh.src.hasUsgs = (\E i \in 1..Len(att.out) : SupplyingInRange(i) # {})
        /\ mesh.src.hasUsgs =>
              \A i \in 1..Len(att.out) :
                  mesh.src.usgsElev[i] = MeanAt(SupplyingInRange(i), i)

\* the first asset's read threw, the second supplied both pixels of the
\* output, one of them with a sample the first pixel of no asset has
C26_Witness ==
    /\ pc = "resolved"
    /\ mesh.src.hasUsgs
    /\ Len(att.features) = 2
    /\ att.features[1].kind = "throws"
    /\ att.features[2].kind = "data"
    /\ ~IsFinite(mesh.src.usgsElev[1])
    /\ mesh.src.usgsElev[2] = UsgsHigh

\* the directed edges of triangle t (1-based) in the order of its indices
DirectedEdges(indices, t) ==
    {<<indices[3 * t - 2], indices[3 * t - 1]>>,
     <<indices[3 * t - 1], indices[3 * t]>>,
     <<indices[3 * t], indices[3 * t - 2]>>}

\* every directed edge is on one triangle only, and its reverse is on
\* exactly one triangle
OppositeOnSharedEdges(indices) ==
    \A t \in 1..NumTriangles(indices) : \A e \in DirectedEdges(indices, t) :
        /\ \A u \in 1..NumTriangles(indices) :
              e \in DirectedEdges(indices, u) => u = t
        /\ Cardinality({u \in 1..NumTriangles(indices) :
                           <<e[2], e[1]>> \in DirectedEdges(indices, u)}) = 1

\* the top and the bottom triangles of mesh m (two each per valid quad)
TopTriangles(m) == 1..(2 * Cardinality(ValidQuads(m)))
BottomTriangles(m) ==
    (2 * Cardinality(ValidQuads(m)) + 1)..(4 * Cardinality(ValidQuads(m)))

\* the normal of the wall triangles on the open side d of quad q points away
\* from the quad (rows run towards -y)
WallsFaceOutward(m) ==
    \A q \in ValidQuads(m), d \in Directions :
        OpenSide(m, q, d) =>
            \A t \in WallsOn(m, q, d) :
                /\ d.dx = 1 => RLess(RInt(0), TriNormal(m.vertices, m.indices, t - 1)[1])
                /\ d.dx = -1 => RLess(TriNormal(m.vertices, m.indices, t - 1)[1], RInt(0))
                /\ d.dy = 1 => RLess(TriNormal(m.vertices, m.indices, t - 1)[2], RInt(0))
                /\ d.dy = -1 => RLess(RInt(0), TriNormal(m.vertices, m.indices, t - 1)[2])

\* C27: in every returned mesh each edge shared by two triangles is
\* traversed in opposite directions by them, the top triangles face up, the
\* bottom triangles face down and the wall triangles face outward.
C27_ConsistentlyOriented ==
    pc = "returned" =>
        /\ OppositeOnSharedEdges(mesh.indices)
        /\ \A t \in TopTriangles(mesh) :
              RLess(RInt(0), TriNormal(mesh.vertices, mesh.indices, t - 1)[3])
        /\ \A t \in BottomTriangles(mesh) :
              RLess(TriNormal(mesh.vertices, mesh.indices, t - 1)[3], RInt(0))
        /\ WallsFaceOutward(mesh)

\* the z of every top vertex of mesh m
TopHeights(m) == {m.vertices[3 * v] : v \in 1..m.numTopVertices}

\* C28: in terrain mode (lithophane = false), for any settings including
\* invert = true, every top-surface vertex has height at least baseHeight,
\* so the top surface lies above the flat bottom at height 0.
C28_TopAtLeastBaseHeight ==
    (pc = "returned" /\ ~options.lithophane) =>
        \A z \in TopHeights(mesh) : RLeq(RInt(options.baseHeight), z)

\* C29: the tile fetches of one attempt are all in flight together and
\* settle in any order; each tile is drawn into its own block of the canvas;
\* the pixels are read only after every fetch has settled, succeeded or
\* failed; so the raster read holds, block by block, the tile's image or
\* nothing, whatever the order in which the fetches completed.
C29_RasterIndependentOfOrder ==
    /\ \A b \in DOMAIN mesh.src.data :
          mesh.src.data[b] = (IF b \in att.pending \/ b \in mesh.src.failed
                              THEN Blank ELSE <<"tile", b>>)
    /\ pc = "read" =>
          /\ att.pending = {}
          /\ mesh.src.image = mesh.src.data

\* a raster of six tiles was read after some fetches failed and others drew
C29_Witness ==
    /\ pc = "read"
    /\ Cardinality(DOMAIN mesh.src.data) = 6
    /\ mesh.src.failed # {}
    /\ \E b \in DOMAIN mesh.src.image : mesh.src.image[b] # Blank

\* the float at slot (0..11) of the record of triangle t of the buffer, as
\* read back: its sign bit, exponent field and fraction field
FloatAt(t, slot) ==
    LET o == 84 + 50 * t + 4 * slot
    IN  [sign |-> buffer[o + 3] \div 128,
         E |-> (buffer[o + 3] % 128) * 2 + buffer[o + 2] \div 128,
         M |-> (buffer[o + 2] % 128) * 65536 + buffer[o + 1] * 256 + buffer[o]]

IsFloatNaN(x) == x.E = 255 /\ x.M # 0
IsFloatZero(x) == x.sign = 0 /\ x.E = 0 /\ x.M = 0

\* the value of a float read back (exponent fields 120..157)
FloatValue(x) ==
    IF x.E = 0 /\ x.M = 0 THEN RInt(0)
    ELSE LET m == (IF x.sign = 1 THEN -1 ELSE 1) * (Pow2(23) + x.M)
         IN  IF x.E >= 150 THEN RInt(m * Pow2(x.E - 150))
             ELSE Rat(m, Pow2(150 - x.E))

\* the float read back is c / sqrt(len2) to eleven bits of its significand
FloatIsQuotient(x, c, len2) ==
    IF c[1] = 0 THEN IsFloatZero(x)
    ELSE LET x2 == RDiv(RMul(c, c), len2)
             m == (Pow2(23) + x.M) \div Pow2(13)
         IN  /\ x.sign = (IF c[1] < 0 THEN 1 ELSE 0)
             /\ x.E \in 120..127
             /\ (m - 1) * (m - 1) * x2[2] <= x2[1] * Pow2(2 * (137 - x.E))
             /\ x2[1] * Pow2(2 * (137 - x.E)) <= (m + 2) * (m + 2) * x2[2]

Degenerate(t) == Len2(TriNormal(mesh.vertices, mesh.indices, t))[1] = 0

\* C30: record t of the buffer holds, for the t-th index triple, the normal,
\* then the three vertices in the order of the triple, then a zero attribute;
\* the normal is the cross product of (v2 - v1) and (v3 - v1) divided by its
\* length, and the zero vector, never NaN, when the cross product has zero
\* length.
C30_RecordLayoutAndNormal ==
    pc = "serialized" =>
        \A t \in 0..(NumTriangles(mesh.indices) - 1) :
            /\ \A j \in 0..2, c \in 0..2 :
                  FloatValue(FloatAt(t, 3 + 3 * j + c))
                      = Vertex(mesh.vertices, At(mesh.indices, 3 * t + j))[c + 1]
            /\ buffer[84 + 50 * t + 48] = 0
            /\ buffer[84 + 50 * t + 49] = 0
            /\ \A c \in 0..2 :
                  /\ ~IsFloatNaN(FloatAt(t, c))
                  /\ IF Degenerate(t) THEN IsFloatZero(FloatAt(t, c))
                     ELSE FloatIsQuotient(FloatAt(t, c),
                              TriNormal(mesh.vertices, mesh.indices, t)[c + 1],
                              Len2(TriNormal(mesh.vertices, mesh.indices, t)))

\* a buffer with a degenerate record first and then a record whose normal
\* has a component that is neither 0 nor 1 nor -1
C30_Witness ==
    /\ pc = "serialized"
    /\ NumTriangles(mesh.indices) = 2
    /\ Degenerate(0)
    /\ ~Degenerate(1)
    /\ \E c \in 0..2 : FloatAt(1, c).M # 0

====
